---- MODULE Spec2Model ----
(***************************************************************************)
(* Model of the strategies of Supvisors (supvisors/strategy.py):           *)
(*   - the RunningFailureHandler (add_job / trigger_jobs),                  *)
(*   - the starting strategies (get_node),                                  *)
(*   - the conciliation strategies (conciliate_conflicts),                  *)
(* of the commands of the RPC interface (supervisors/rpcinterface.py) with  *)
(* their deferred jobs and of restart() / shutdown(), and of the pool of    *)
(* asynchronous requests (supvisors/pool.py).                               *)
(* ApplicationStatus, the Starter and the FSM are modelled from the design  *)
(* document and from the tests of the repository.                           *)
(* Starter, Stopper and the Context are collaborators of the handler: what  *)
(* they answer (applications in progress, stopped processes) is an input of *)
(* each trigger_jobs call, and the requests they receive are recorded.      *)
(***************************************************************************)
EXTENDS Integers, Sequences, FiniteSets, TLC

\* ------------------------------------------------------------------ bounds
\* number of processes known to the context (two processes per application)
NumProcs == 2

\* longest list of node names given to get_node
MaxNodeNames == 3

\* number of requests given to the pool
MaxRequests == 2

\* ------------------------------------------------------- processes, enums
Procs == 1 .. NumProcs

\* process.application_name: processes 1,2 belong to application 1, 3,4 to 2
application_name(process) == (process + 1) \div 2

Apps == {application_name(p) : p \in Procs}

RunningFailureStrategies ==
    {"CONTINUE", "RESTART_PROCESS", "STOP_APPLICATION", "RESTART_APPLICATION"}

\* no process: the value of last_call.process when the call has none
NoProcess == NumProcs + 1

VARIABLES
    \* RunningFailureHandler attributes
    stop_application_jobs,      \* application names to be stopped
    restart_application_jobs,   \* application names to be restarted
    restart_process_jobs,       \* processes to be restarted
    continue_process_jobs,      \* processes to be ignored (log only)
    start_application_jobs,     \* applications to be started (deferred)
    start_process_jobs,         \* processes to be started (deferred)
    \* the last call made on the handler and what it saw / requested
    last_call,                  \* [op, strategy, process, again]
    before,                     \* the six sets as they were when the last call began
    job_applications,           \* Starter | Stopper applications read by the last trigger_jobs
    stopped_processes,          \* processes whose stopped() held in the last trigger_jobs
    calls,                      \* requests issued to Starter / Stopper by the last trigger_jobs
    pending_calls,              \* the requests Starter and Stopper have not completed yet
    \* starting strategies
    nodes,                      \* supvisors.context.nodes: node name -> [state, load]
    node_names,                 \* the allowed nodes given to get_node, in configuration order
    expected_load,              \* the load of the process to start
    starting_strategy,          \* the StartingStrategies value given to get_node
    node,                       \* what get_node returned
    \* conciliation strategies
    conciliation_strategy,      \* the ConciliationStrategies value given to conciliate_conflicts
    running_nodes,              \* process.running_nodes: the nodes where the process runs
    info_map,                   \* process.info_map[node]['uptime'] of each running node
    rules,                      \* process.rules.running_failure_strategy
    conflicts,                  \* the list of conflicting processes given to conciliate
    saved_nodes,                \* conflicting process -> the node kept by the strategy
    stop_requests,              \* <<node, process>> given to zmq.pusher.send_stop_process
    conciliated,                \* conciliate_conflicts has returned
    \* RPC interface
    fsm_state,                  \* supervisors.fsm.state
    rpc,                        \* the command received: [method, strategy, application_name, namespec, wait, done]
    rpc_result,                 \* what the command returned, or the fault it raised
    rpc_calls,                  \* requests given to Starter / Stopper by the last command or poll
    requester_calls,            \* <<address, process>> given to requester.stop_process
    job,                        \* the deferred job (onwait) returned by the command
    poll_result,                \* what the last poll of the job returned, or the fault it raised
    in_progress,                \* starter / stopper in_progress() read by the last poll
    application_state,          \* application.state read by the last command or poll
    process_states              \* targeted process -> [state, addresses] read by the last command or poll

VARIABLES
    \* restart() / shutdown() of the RPC interface
    addresses,                  \* context.addresses.values(), in the order of the dictionary
    func,                       \* the requester function given to _send_addresses_func
    func_outcomes,              \* address -> what func(address) does: returns or raises RPCError
    func_requests,              \* the addresses given to func, in call order
    func_result                 \* what _send_addresses_func returned, or the fault it raised

addresses_vars == <<addresses, func, func_outcomes, func_requests, func_result>>

VARIABLES
    \* SupvisorsPool and the asynchronous requests of its worker
    pool_state,                 \* the state of SupvisorsPool.pool: "RUN" or "TERMINATE"
    manager,                    \* SupvisorsPool.manager: "started" or "shutdown"
    info_queue,                 \* SupvisorsPool.info_queue: "Queue" or None
    queue_items,                \* the addresses whose process info was put in the queue
    task_queue,                 \* the requests given to apply_async and not yet taken
    apply_result,               \* how the last apply_async ended: "queued" or "raised"
    submitted,                  \* the number of requests given to the pool
    worker,                     \* the request the worker executes and the events it still has to send
    address_info,               \* what get_address_info answered to the last check: address -> statecode
    authorized,                 \* the authorization computed by the last check
    comm_events,                \* the events received by the local supervisor, in order
    sent_requests,              \* <<function, address>> of the other requests whose RPC returned
    failed,                     \* the addresses toward which an RPC of a request raised
    returned,                   \* how the last request function ended: "returns" or "raises"
    close_pc,                   \* the number of statements of close() executed
    node_state                  \* context.addresses[address].state of the peers

pool_vars == <<pool_state, manager, info_queue, queue_items, task_queue, apply_result, submitted,
               worker, address_info, authorized, comm_events, sent_requests, failed, returned,
               close_pc, node_state>>

\* the variables of the parts that follow the RPC commands
VARIABLES
    \* ApplicationStatus
    application_processes,      \* application.processes: name -> [state, expected_exit, rules]
    managed,                    \* application.rules.managed
    start_sequence,             \* application.start_sequence: sequence value -> list of processes
    stop_sequence,              \* application.stop_sequence: sequence value -> list of processes
    app_state,                  \* application.state
    major_failure,              \* application.major_failure
    minor_failure,              \* application.minor_failure
    sequences_updated,          \* update_sequences was called since the rules last changed
    status_updated              \* update_status was called since the last change

application_vars == <<application_processes, managed, start_sequence, stop_sequence, app_state,
                      major_failure, minor_failure, sequences_updated, status_updated>>

VARIABLES
    \* Starter
    starter_processes,          \* process -> [start_sequence, state]
    starting_failure_strategy,  \* rules.starting_failure_strategy of the application
    planned_sequence,           \* the sub-sequences still to start, in order
    current_jobs,               \* the processes whose start request is in flight
    start_requests,             \* the sets of processes given to async_start_process, in order
    stopper_pushed,             \* the application was pushed to the Stopper
    starter_called              \* start_application was called

starter_vars == <<starter_processes, starting_failure_strategy, planned_sequence, current_jobs,
                  start_requests, stopper_pushed, starter_called>>

VARIABLES
    \* FSM and master
    supvisors_state,            \* the state of the FSM
    address_states,             \* context.addresses[address].state
    local_address,              \* the address of the local node
    master_address,             \* context.master_address
    running_order,              \* the addresses in the order in which they first were RUNNING
    running_at_entry            \* the addresses that were RUNNING when DEPLOYMENT was entered

master_vars == <<supvisors_state, address_states, local_address, master_address, running_order,
                 running_at_entry>>

cluster_vars == <<addresses_vars, pool_vars, application_vars, starter_vars, master_vars>>

handler_vars == <<stop_application_jobs, restart_application_jobs, restart_process_jobs,
                  continue_process_jobs, start_application_jobs, start_process_jobs>>

vars == <<stop_application_jobs, restart_application_jobs, restart_process_jobs,
          continue_process_jobs, start_application_jobs, start_process_jobs,
          last_call, before, job_applications, stopped_processes, calls, pending_calls,
          nodes, node_names, expected_load, starting_strategy, node,
          conciliation_strategy, running_nodes, info_map, rules, conflicts, saved_nodes,
          stop_requests, conciliated,
          fsm_state, rpc, rpc_result, rpc_calls, requester_calls, job, poll_result,
          in_progress, application_state, process_states, cluster_vars>>

failure_vars == <<stop_application_jobs, restart_application_jobs, restart_process_jobs,
                  continue_process_jobs, start_application_jobs, start_process_jobs,
                  last_call, before, job_applications, stopped_processes, calls,
                  pending_calls>>

starting_vars == <<nodes, node_names, expected_load, starting_strategy, node>>

conciliation_vars == <<conciliation_strategy, running_nodes, info_map, rules, conflicts,
                       saved_nodes, stop_requests, conciliated>>

rpc_vars == <<fsm_state, rpc, rpc_result, rpc_calls, requester_calls, job, poll_result,
              in_progress, application_state, process_states>>

\* the six sets of the handler as one value
Handler ==
    [stop_application_jobs    |-> stop_application_jobs,
     restart_application_jobs |-> restart_application_jobs,
     restart_process_jobs     |-> restart_process_jobs,
     continue_process_jobs    |-> continue_process_jobs,
     start_application_jobs   |-> start_application_jobs,
     start_process_jobs       |-> start_process_jobs]

\* RunningFailureHandler.__init__
EmptyHandler ==
    [stop_application_jobs    |-> {},
     restart_application_jobs |-> {},
     restart_process_jobs     |-> {},
     continue_process_jobs    |-> {},
     start_application_jobs   |-> {},
     start_process_jobs       |-> {}]

\* ------------------------------------------------------------------ add_job
\* variant: the application is kept in restart_application_jobs
add_stop_application_keep_restart(h, process) ==
    LET app == application_name(process) IN
    [h EXCEPT !.stop_application_jobs = @ \cup {app},
              !.restart_process_jobs = {x \in @ : application_name(x) # app},
              !.continue_process_jobs = {x \in @ : application_name(x) # app}]

add_stop_application(h, process) ==
    LET app == application_name(process) IN
    [h EXCEPT !.stop_application_jobs = @ \cup {app},
              !.restart_application_jobs = @ \ {app},
              !.restart_process_jobs = {x \in @ : application_name(x) # app},
              !.continue_process_jobs = {x \in @ : application_name(x) # app}]

\* variant: the processes to restart of the application are kept
add_restart_application_keep_processes(h, process) ==
    LET app == application_name(process) IN
    IF app \notin h.stop_application_jobs
    THEN [h EXCEPT !.restart_application_jobs = @ \cup {app},
                   !.continue_process_jobs = {x \in @ : application_name(x) # app}]
    ELSE h

add_restart_application(h, process) ==
    LET app == application_name(process) IN
    IF app \notin h.stop_application_jobs
    THEN [h EXCEPT !.restart_application_jobs = @ \cup {app},
                   !.restart_process_jobs = {x \in @ : application_name(x) # app},
                   !.continue_process_jobs = {x \in @ : application_name(x) # app}]
    ELSE h

\* variant: the process is not taken out of continue_process_jobs
add_restart_process_keep_continue(h, process) ==
    IF application_name(process) \notin (h.stop_application_jobs \cup h.restart_application_jobs)
    THEN [h EXCEPT !.restart_process_jobs = @ \cup {process}]
    ELSE h

\* variant: the process is toggled in restart_process_jobs (^= for |=)
add_restart_process_toggle(h, process) ==
    IF application_name(process) \notin (h.stop_application_jobs \cup h.restart_application_jobs)
    THEN [h EXCEPT !.restart_process_jobs = (@ \cup {process}) \ (@ \cap {process}),
                   !.continue_process_jobs = @ \ {process}]
    ELSE h

add_restart_process(h, process) ==
    IF application_name(process) \notin (h.stop_application_jobs \cup h.restart_application_jobs)
    THEN [h EXCEPT !.restart_process_jobs = @ \cup {process},
                   !.continue_process_jobs = @ \ {process}]
    ELSE h

\* variant: restart_process_jobs is not looked at
add_continue_unchecked(h, process) ==
    IF application_name(process) \notin (h.stop_application_jobs \cup h.restart_application_jobs)
    THEN [h EXCEPT !.continue_process_jobs = @ \cup {process}]
    ELSE h

add_continue(h, process) ==
    IF /\ application_name(process) \notin (h.stop_application_jobs \cup h.restart_application_jobs)
       /\ process \notin h.restart_process_jobs
    THEN [h EXCEPT !.continue_process_jobs = @ \cup {process}]
    ELSE h

add_job(h, strategy, process) ==
    CASE strategy = "STOP_APPLICATION"    -> add_stop_application(h, process)
      [] strategy = "RESTART_APPLICATION" -> add_restart_application(h, process)
      [] strategy = "RESTART_PROCESS"     -> add_restart_process(h, process)
      [] strategy = "CONTINUE"            -> add_continue(h, process)
      [] OTHER                            -> h

\* ------------------------------------------------------------- trigger_jobs
\* a request made to the Starter or to the Stopper; step is the position of the
\* loop of trigger_jobs that made it (the loops run one after the other)
Call(commander, method, arg, step) ==
    [commander |-> commander, method |-> method, arg |-> arg, step |-> step]

\* application.stopped(): the application state is STOPPED when no process of
\* the application is starting, running or stopping
application_stopped(app, stopped) ==
    \A p \in Procs : application_name(p) = app => p \in stopped

\* t: the six sets of the handler plus the calls made so far
trigger_stop_applications(t, job_apps) ==
    LET go == {a \in t.stop_application_jobs : a \notin job_apps} IN
    [t EXCEPT !.stop_application_jobs = @ \ go,
              !.calls = @ \cup {Call("stopper", "stop_application", a, 1) : a \in go}]

trigger_restart_applications(t, job_apps) ==
    LET go == {a \in t.restart_application_jobs : a \notin job_apps} IN
    [t EXCEPT !.restart_application_jobs = @ \ go,
              !.start_application_jobs = @ \cup go,
              !.calls = @ \cup {Call("stopper", "stop_application", a, 2) : a \in go}]

trigger_restart_processes(t, job_apps) ==
    LET go == {p \in t.restart_process_jobs : application_name(p) \notin job_apps} IN
    [t EXCEPT !.restart_process_jobs = @ \ go,
              !.start_process_jobs = @ \cup go,
              !.calls = @ \cup {Call("stopper", "stop_process", p, 3) : p \in go}]

trigger_start_applications(t, job_apps, stopped) ==
    LET go == {a \in t.start_application_jobs :
                  application_stopped(a, stopped) /\ a \notin job_apps} IN
    [t EXCEPT !.start_application_jobs = @ \ go,
              !.calls = @ \cup {Call("starter", "default_start_application", a, 4) : a \in go}]

\* variant: the applications in progress are not looked at
trigger_start_processes_in_progress(t, job_apps, stopped) ==
    LET go == {p \in t.start_process_jobs : p \in stopped} IN
    [t EXCEPT !.start_process_jobs = @ \ go,
              !.calls = @ \cup {Call("starter", "default_start_process", p, 5) : p \in go}]

\* variant: the process is started whether stopped or not
trigger_start_processes_not_stopped(t, job_apps, stopped) ==
    LET go == {p \in t.start_process_jobs : application_name(p) \notin job_apps} IN
    [t EXCEPT !.start_process_jobs = @ \ go,
              !.calls = @ \cup {Call("starter", "default_start_process", p, 5) : p \in go}]

trigger_start_processes(t, job_apps, stopped) ==
    LET go == {p \in t.start_process_jobs :
                  p \in stopped /\ application_name(p) \notin job_apps} IN
    [t EXCEPT !.start_process_jobs = @ \ go,
              !.calls = @ \cup {Call("starter", "default_start_process", p, 5) : p \in go}]

\* variant: the entries whose application is in progress are kept
trigger_continue_processes_deferred(t) == t

\* log only the continuation jobs, then continue_process_jobs = set()
trigger_continue_processes(t) ==
    [t EXCEPT !.continue_process_jobs = {}]

trigger_jobs(h, job_apps, stopped) ==
    LET t0 == [stop_application_jobs    |-> h.stop_application_jobs,
               restart_application_jobs |-> h.restart_application_jobs,
               restart_process_jobs     |-> h.restart_process_jobs,
               continue_process_jobs    |-> h.continue_process_jobs,
               start_application_jobs   |-> h.start_application_jobs,
               start_process_jobs       |-> h.start_process_jobs,
               calls                    |-> {}]
        t1 == trigger_stop_applications(t0, job_apps)
        t2 == trigger_restart_applications(t1, job_apps)
        t3 == trigger_restart_processes(t2, job_apps)
        t4 == trigger_start_applications(t3, job_apps, stopped)
        t5 == trigger_start_processes(t4, job_apps, stopped)
    IN  trigger_continue_processes(t5)

\* ------------------------------------------------------ starting strategies
AddressStates == {"UNKNOWN", "CHECKING", "RUNNING", "SILENT", "ISOLATING", "ISOLATED"}

StartingStrategies == {"CONFIG", "LESS_LOADED", "MOST_LOADED", "LOCAL"}

\* Python's None
None == "None"

\* the node names of the configuration
NodeNames == {"A", "B", "C"}

\* supvisors.address_mapper.local_node_name
local_node_name == "A"

\* the node states, the loads of the nodes and the loads of the processes tried
ContextStates == {"CHECKING", "RUNNING", "SILENT"}
Loads == {40, 60}
ExpectedLoads == {1, 40, 50, 61}

Range(seq) == {seq[i] : i \in 1 .. Len(seq)}

\* variant: a node filled to exactly 100 is accepted
is_loading_valid_upto_100(ctx, node_name, load_to_add) ==
    IF node_name \in DOMAIN ctx
    THEN IF ctx[node_name].state = "RUNNING"
         THEN <<ctx[node_name].load + load_to_add <= 100, ctx[node_name].load>>
         ELSE <<FALSE, 0>>
    ELSE <<FALSE, 0>>

\* AbstractStartingStrategy.is_loading_valid: (validity, current load)
is_loading_valid(ctx, node_name, load_to_add) ==
    IF node_name \in DOMAIN ctx
    THEN IF ctx[node_name].state = "RUNNING"
         THEN <<ctx[node_name].load + load_to_add < 100, ctx[node_name].load>>
         ELSE <<FALSE, 0>>
    ELSE <<FALSE, 0>>

\* the keys of a dict filled in the order of names: each name once, at the
\* place of its first occurrence
RECURSIVE dict_keys(_, _)
dict_keys(keys, names) ==
    IF names = <<>> THEN keys
    ELSE dict_keys(IF Head(names) \in Range(keys) THEN keys ELSE Append(keys, Head(names)),
                   Tail(names))

\* AbstractStartingStrategy.get_loading_and_validity: the dict as the sequence
\* of its items <<node name, (validity, load)>>, in insertion order
get_loading_and_validity(ctx, names, load_to_add) ==
    LET keys == dict_keys(<<>>, names) IN
    [i \in 1 .. Len(keys) |-> <<keys[i], is_loading_valid(ctx, keys[i], load_to_add)>>]

\* sorted(items, key=load): the sort is stable, an item goes after the items
\* whose load is lower or equal
RECURSIVE sorted_by_load(_)
sorted_by_load(items) ==
    IF items = <<>> THEN <<>>
    ELSE LET done == sorted_by_load(SubSeq(items, 1, Len(items) - 1))
             x == items[Len(items)]
             k == Cardinality({i \in 1 .. Len(done) : done[i][2] <= x[2]})
         IN  SubSeq(done, 1, k) \o <<x>> \o SubSeq(done, k + 1, Len(done))

\* AbstractStartingStrategy.sort_valid_by_loading: <<node name, load>> of the
\* valid items, sorted by load
sort_valid_by_loading(loading_validity_map) ==
    LET valid == SelectSeq(loading_validity_map, LAMBDA item : item[2][1])
    IN  sorted_by_load([i \in 1 .. Len(valid) |-> <<valid[i][1], valid[i][2][2]>>])

\* variant: the valid node of lowest load is taken
config_get_node_by_load(ctx, names, load_to_add) ==
    LET sorted_nodes == sort_valid_by_loading(get_loading_and_validity(ctx, names, load_to_add))
    IN  IF sorted_nodes # <<>> THEN sorted_nodes[1][1] ELSE None

\* ConfigStrategy.get_node
config_get_node(ctx, names, load_to_add) ==
    LET loading_validity_map == get_loading_and_validity(ctx, names, load_to_add)
        valid == SelectSeq(loading_validity_map, LAMBDA item : item[2][1])
    IN  IF valid # <<>> THEN valid[1][1] ELSE None

\* variant: the last node of the sorted list is taken
less_loaded_get_node_last(ctx, names, load_to_add) ==
    LET sorted_nodes == sort_valid_by_loading(get_loading_and_validity(ctx, names, load_to_add))
    IN  IF sorted_nodes # <<>> THEN sorted_nodes[Len(sorted_nodes)][1] ELSE None

\* LessLoadedStrategy.get_node
less_loaded_get_node(ctx, names, load_to_add) ==
    LET sorted_nodes == sort_valid_by_loading(get_loading_and_validity(ctx, names, load_to_add))
    IN  IF sorted_nodes # <<>> THEN sorted_nodes[1][1] ELSE None

\* variant: the items that are not valid are sorted with the others
most_loaded_get_node_any(ctx, names, load_to_add) ==
    LET items == get_loading_and_validity(ctx, names, load_to_add)
        sorted_nodes == sorted_by_load([i \in 1 .. Len(items) |-> <<items[i][1], items[i][2][2]>>])
    IN  IF sorted_nodes # <<>> THEN sorted_nodes[Len(sorted_nodes)][1] ELSE None

\* MostLoadedStrategy.get_node
most_loaded_get_node(ctx, names, load_to_add) ==
    LET sorted_nodes == sort_valid_by_loading(get_loading_and_validity(ctx, names, load_to_add))
    IN  IF sorted_nodes # <<>> THEN sorted_nodes[Len(sorted_nodes)][1] ELSE None

\* variant: the local node is tested whether it is in the list given or not
local_get_node_any(ctx, names, load_to_add) ==
    IF is_loading_valid(ctx, local_node_name, load_to_add)[1] THEN local_node_name ELSE None

\* LocalStrategy.get_node
local_get_node(ctx, names, load_to_add) ==
    LET loading_validity_map == get_loading_and_validity(ctx, names, load_to_add)
        found == SelectSeq(loading_validity_map, LAMBDA item : item[1] = local_node_name)
    IN  IF found # <<>> /\ found[1][2][1] THEN local_node_name ELSE None

\* get_node(supvisors, strategy, node_rules, expected_load)
get_node(ctx, chosen, node_rules, load_to_add) ==
    CASE chosen = "CONFIG"      -> config_get_node(ctx, node_rules, load_to_add)
      [] chosen = "LESS_LOADED" -> less_loaded_get_node(ctx, node_rules, load_to_add)
      [] chosen = "MOST_LOADED" -> most_loaded_get_node(ctx, node_rules, load_to_add)
      [] chosen = "LOCAL"       -> local_get_node(ctx, node_rules, load_to_add)
      [] OTHER                  -> None

\* ------------------------------------------------------------------ actions
SetHandler(h) ==
    /\ stop_application_jobs' = h.stop_application_jobs
    /\ restart_application_jobs' = h.restart_application_jobs
    /\ restart_process_jobs' = h.restart_process_jobs
    /\ continue_process_jobs' = h.continue_process_jobs
    /\ start_application_jobs' = h.start_application_jobs
    /\ start_process_jobs' = h.start_process_jobs

NoCall == [op |-> "none", strategy |-> "none", process |-> NoProcess, again |-> FALSE]

HandlerInit ==
    /\ stop_application_jobs = EmptyHandler.stop_application_jobs
    /\ restart_application_jobs = EmptyHandler.restart_application_jobs
    /\ restart_process_jobs = EmptyHandler.restart_process_jobs
    /\ continue_process_jobs = EmptyHandler.continue_process_jobs
    /\ start_application_jobs = EmptyHandler.start_application_jobs
    /\ start_process_jobs = EmptyHandler.start_process_jobs
    /\ last_call = NoCall
    /\ before = EmptyHandler
    /\ job_applications = {}
    /\ stopped_processes = {}
    /\ calls = {}
    /\ pending_calls = {}

\* no get_node call is made
NoStarting ==
    /\ nodes = <<>>
    /\ node_names = <<>>
    /\ expected_load = 0
    /\ starting_strategy = "none"
    /\ node = None

\* no conciliation is made
NoConciliation ==
    /\ conciliation_strategy = "none"
    /\ running_nodes = [p \in Procs |-> {}]
    /\ info_map = [p \in Procs |-> <<>>]
    /\ rules = [p \in Procs |-> "CONTINUE"]
    /\ conflicts = <<>>
    /\ saved_nodes = <<>>
    /\ stop_requests = {}
    /\ conciliated = FALSE

\* ---- names given to the RPC interface
\* an application name that the context does not know, and no name at all
UnknownApp == Cardinality(Apps) + 1
NoApp == UnknownApp + 1

AppNames == Apps \cup {UnknownApp}

\* a process name that the context does not know; NoProcess as the name of a
\* namespec stands for 'group:*'
UnknownProcess == NoProcess + 1

\* split_namespec(namespec): the group and the name
Namespecs ==
    {[group |-> application_name(p), name |-> p] : p \in Procs}
    \cup {[group |-> a, name |-> NoProcess] : a \in AppNames}
    \cup {[group |-> a, name |-> UnknownProcess] : a \in Apps}

NoNamespec == [group |-> NoApp, name |-> NoProcess]

\* done: what Starter / Stopper answered to the command (TRUE: nothing to do)
NoCommand ==
    [method |-> "none", strategy |-> "none", application_name |-> NoApp,
     namespec |-> NoNamespec, wait |-> FALSE, done |-> FALSE]

\* a deferred job: the onwait closure and the values it holds (the command
\* arguments, and waitstop / job of the restart commands: inner is the kind of
\* onwait.job, "bool" when stop_application returned a boolean)
Job(kind, strategy, app, namespec, targets, wait, waitstop, inner) ==
    [kind |-> kind, strategy |-> strategy, application_name |-> app, namespec |-> namespec,
     targets |-> targets, wait |-> wait, waitstop |-> waitstop, inner |-> inner]

NoJob == Job("none", "none", NoApp, NoNamespec, {}, FALSE, FALSE, "none")

\* no command is received
NoRpc ==
    /\ fsm_state = "INITIALIZATION"
    /\ rpc = NoCommand
    /\ rpc_result = "none"
    /\ rpc_calls = {}
    /\ requester_calls = {}
    /\ job = NoJob
    /\ poll_result = "none"
    /\ in_progress = FALSE
    /\ application_state = "none"
    /\ process_states = <<>>

\* no restart() / shutdown() is received
NoAddresses ==
    /\ addresses = <<>>
    /\ func = "none"
    /\ func_outcomes = <<>>
    /\ func_requests = <<>>
    /\ func_result = "none"

\* the peer of the local address that requests are sent to
PoolPeers == {"B"}

\* a request of the pool: the function and its address_name
Task(name, address_name, pending) ==
    [func |-> name, address_name |-> address_name, pending |-> pending]

NoTask == Task("none", None, <<>>)

\* SupvisorsPool.__init__, before any request; the peers are not known yet
NewPool ==
    /\ pool_state = "RUN"
    /\ manager = "started"
    /\ info_queue = "Queue"
    /\ queue_items = <<>>
    /\ task_queue = <<>>
    /\ apply_result = "none"
    /\ submitted = 0
    /\ worker = NoTask
    /\ address_info = <<>>
    /\ authorized = "none"
    /\ comm_events = <<>>
    /\ sent_requests = {}
    /\ failed = {}
    /\ returned = "none"
    /\ close_pc = 0
    /\ node_state = [a \in PoolPeers |-> "UNKNOWN"]

\* ApplicationStatus.__init__ without any process: no sequence, STOPPED, no
\* failure
NoApplication ==
    /\ application_processes = <<>>
    /\ managed = FALSE
    /\ start_sequence = <<>>
    /\ stop_sequence = <<>>
    /\ app_state = "STOPPED"
    /\ major_failure = FALSE
    /\ minor_failure = FALSE
    /\ sequences_updated = FALSE
    /\ status_updated = FALSE

\* a Starter without any job
NoStarter ==
    /\ starter_processes = <<>>
    /\ starting_failure_strategy = "ABORT"
    /\ planned_sequence = <<>>
    /\ current_jobs = {}
    /\ start_requests = <<>>
    /\ stopper_pushed = FALSE
    /\ starter_called = FALSE

\* the FSM in INITIALIZATION: no master, no address known to be RUNNING
NoFsm ==
    /\ local_address = local_node_name
    /\ supvisors_state = "INITIALIZATION"
    /\ address_states = [a \in NodeNames |-> "UNKNOWN"]
    /\ master_address = None
    /\ running_order = <<>>
    /\ running_at_entry = {}

NoCluster == NoAddresses /\ NewPool /\ NoApplication /\ NoStarter /\ NoFsm

Init == HandlerInit /\ NoStarting /\ NoConciliation /\ NoRpc /\ NoCluster

\* failure_handler.add_job(strategy, process)
AddJob ==
    \E strategy \in RunningFailureStrategies, process \in Procs :
        /\ SetHandler(add_job(Handler, strategy, process))
        /\ last_call' = [op |-> "add_job", strategy |-> strategy, process |-> process,
                         again |-> /\ last_call.op = "add_job"
                                   /\ last_call.strategy = strategy
                                   /\ last_call.process = process]
        /\ before' = Handler
        /\ job_applications' = {}
        /\ stopped_processes' = {}
        /\ calls' = {}
        /\ UNCHANGED pending_calls
        /\ UNCHANGED starting_vars
        /\ UNCHANGED conciliation_vars
        /\ UNCHANGED rpc_vars
        /\ UNCHANGED cluster_vars

\* the applications that have an entry in one of the six sets of h
handler_applications(h) ==
    h.stop_application_jobs \cup h.restart_application_jobs \cup h.start_application_jobs
    \cup {application_name(p) : p \in h.restart_process_jobs \cup h.continue_process_jobs
                                         \cup h.start_process_jobs}

\* the processes whose stopped() a trigger_jobs call on h may read: those of the
\* deferred sets and those the call itself moves into the deferred sets
consulted_processes(h) ==
    h.start_process_jobs \cup h.restart_process_jobs
    \cup {p \in Procs : application_name(p) \in h.start_application_jobs
                                                \cup h.restart_application_jobs}

\* failure_handler.trigger_jobs(), with what Starter, Stopper and the context
\* answer; the answers about applications and processes the call never looks
\* at cannot change what it does and are left out
TriggerJobs ==
    \E job_apps \in SUBSET handler_applications(Handler),
       stopped \in SUBSET consulted_processes(Handler) :
        LET t == trigger_jobs(Handler, job_apps, stopped) IN
        /\ SetHandler(t)
        /\ calls' = t.calls
        /\ last_call' = [op |-> "trigger_jobs", strategy |-> "none", process |-> NoProcess,
                         again |-> FALSE]
        /\ before' = Handler
        /\ job_applications' = job_apps
        /\ stopped_processes' = stopped
        /\ UNCHANGED pending_calls
        /\ UNCHANGED starting_vars
        /\ UNCHANGED conciliation_vars
        /\ UNCHANGED rpc_vars
        /\ UNCHANGED cluster_vars

Next == AddJob \/ TriggerJobs

Spec == Init /\ [][Next]_vars

\* ---- the failure handler in the main loop: failures are added as they come,
\* trigger_jobs is called on every tick with what Starter, Stopper and the
\* context answer at that time, and the two Commanders complete the requests
\* they were given, application by application. The records of the last call
\* (last_call, before, job_applications, calls) are not kept here

\* the application a request to Starter or Stopper is about
request_application(c) ==
    IF c.method \in {"stop_application", "default_start_application"}
    THEN c.arg ELSE application_name(c.arg)

\* the processes a request to Starter or Stopper is about
request_processes(c) ==
    IF c.method \in {"stop_application", "default_start_application"}
    THEN {p \in Procs : application_name(p) = c.arg} ELSE {c.arg}

\* starter.get_job_applications() | stopper.get_job_applications()
get_job_applications(requests) == {request_application(c) : c \in requests}

\* the requests a Commander holds for an application
commander_jobs(commander, app) ==
    {c \in pending_calls : c.commander = commander /\ request_application(c) = app}

\* a process failure is reported: failure_handler.add_job(strategy, process)
OnFailure ==
    \E strategy \in RunningFailureStrategies, process \in Procs :
        /\ SetHandler(add_job(Handler, strategy, process))
        /\ UNCHANGED <<stopped_processes, pending_calls>>
        /\ UNCHANGED <<last_call, before, job_applications, calls>>
        /\ UNCHANGED starting_vars
        /\ UNCHANGED conciliation_vars
        /\ UNCHANGED rpc_vars
        /\ UNCHANGED cluster_vars

\* a tick: failure_handler.trigger_jobs(); the requests it makes are held by
\* Starter and Stopper until they complete
OnTick ==
    LET job_apps == get_job_applications(pending_calls)
        t == trigger_jobs(Handler, job_apps, stopped_processes)
    IN  /\ SetHandler(t)
        /\ pending_calls' = pending_calls \cup t.calls
        /\ UNCHANGED stopped_processes
        /\ UNCHANGED <<last_call, before, job_applications, calls>>
        /\ UNCHANGED starting_vars
        /\ UNCHANGED conciliation_vars
        /\ UNCHANGED rpc_vars
        /\ UNCHANGED cluster_vars

\* the Stopper completes its requests on an application: the processes it was
\* given are stopped, the application leaves stopper.get_job_applications()
StopperDone(app) ==
    /\ commander_jobs("stopper", app) # {}
    /\ stopped_processes' =
           stopped_processes \cup UNION {request_processes(c) : c \in commander_jobs("stopper", app)}
    /\ pending_calls' = pending_calls \ commander_jobs("stopper", app)
    /\ UNCHANGED <<handler_vars, last_call, before, job_applications, calls>>
    /\ UNCHANGED starting_vars
    /\ UNCHANGED conciliation_vars
    /\ UNCHANGED rpc_vars
    /\ UNCHANGED cluster_vars

\* the Starter completes its requests on an application: the processes it was
\* given are running, the application leaves starter.get_job_applications()
StarterDone(app) ==
    /\ commander_jobs("starter", app) # {}
    /\ stopped_processes' =
           stopped_processes \ UNION {request_processes(c) : c \in commander_jobs("starter", app)}
    /\ pending_calls' = pending_calls \ commander_jobs("starter", app)
    /\ UNCHANGED <<handler_vars, last_call, before, job_applications, calls>>
    /\ UNCHANGED starting_vars
    /\ UNCHANGED conciliation_vars
    /\ UNCHANGED rpc_vars
    /\ UNCHANGED cluster_vars

TickNext ==
    \/ OnFailure
    \/ OnTick
    \/ \E app \in Apps : StopperDone(app)
    \/ \E app \in Apps : StarterDone(app)

\* trigger_jobs is called on every tick; Starter and Stopper end the work they
\* hold on an application
TickFairness ==
    /\ WF_vars(OnTick)
    /\ \A app \in Apps : WF_vars(StopperDone(app)) /\ WF_vars(StarterDone(app))

SpecTick == Init /\ [][TickNext]_vars /\ TickFairness

\* ---- the starting strategies on their own: a context, a list of allowed
\* nodes and a load are given, get_node is called with each strategy
NodeStatusValues == [state : ContextStates, load : Loads]

Contexts == UNION {[known -> NodeStatusValues] : known \in SUBSET NodeNames}

NodeLists == UNION {[1 .. n -> NodeNames] : n \in 0 .. MaxNodeNames}

StartingInit ==
    /\ HandlerInit
    /\ nodes \in Contexts
    /\ node_names \in NodeLists
    /\ expected_load \in ExpectedLoads
    /\ starting_strategy = "none"
    /\ node = None
    /\ NoConciliation
    /\ NoRpc
    /\ NoCluster

GetNode ==
    \E chosen \in StartingStrategies :
        /\ starting_strategy' = chosen
        /\ node' = get_node(nodes, chosen, node_names, expected_load)
        /\ UNCHANGED <<nodes, node_names, expected_load>>
        /\ UNCHANGED failure_vars
        /\ UNCHANGED conciliation_vars
        /\ UNCHANGED rpc_vars
        /\ UNCHANGED cluster_vars

StartingNext == GetNode

SpecStarting == StartingInit /\ [][StartingNext]_vars

\* ---- the conciliation strategies: the context holds processes running on
\* several nodes, conciliate_conflicts is called once with the configured strategy
ConciliationStrategies ==
    {"SENICIDE", "INFANTICIDE", "USER", "STOP", "RESTART", "RUNNING_FAILURE"}

\* the uptimes a running instance may have (equal uptimes on two nodes happen)
Uptimes == {10, 30}

\* variant: the oldest instance is kept
senicide_saved_nodes_oldest(running, info) ==
    {n \in running : \A m \in running : info[n] >= info[m]}

\* min(process.running_nodes, key=uptime): running_nodes has no order that the
\* strategy controls, so any node of smallest uptime may be the one returned
senicide_saved_nodes(running, info) ==
    {n \in running : \A m \in running : info[n] <= info[m]}

\* variant: the youngest instance is kept
infanticide_saved_nodes_youngest(running, info) ==
    {n \in running : \A m \in running : info[n] <= info[m]}

\* max(process.running_nodes, key=uptime)
infanticide_saved_nodes(running, info) ==
    {n \in running : \A m \in running : info[n] >= info[m]}

\* variant: the stop is sent to every running node
send_stop_process_running(process, running, saved_node) ==
    {<<n, process>> : n \in running}

\* the copy of running_nodes without saved_node, each node of it given to
\* zmq.pusher.send_stop_process with the namespec of the process
send_stop_process_others(process, running, saved_node) ==
    {<<n, process>> : n \in running \ {saved_node}}

\* variant: only the first conflict is stopped
stop_conciliate_first(list) ==
    {Call("stopper", "stop_process", list[i], 0) : i \in DOMAIN list \cap {1}}

\* StopStrategy.conciliate: stopper.stop_process(process) for each conflict
stop_conciliate(list) ==
    {Call("stopper", "stop_process", p, 0) : p \in Range(list)}

\* variant: the conflicts are added with the CONTINUE strategy
RECURSIVE restart_add_jobs_continue(_, _)
restart_add_jobs_continue(h, list) ==
    IF list = <<>> THEN h
    ELSE restart_add_jobs_continue(add_job(h, "CONTINUE", Head(list)), Tail(list))

\* the loop of RestartStrategy.conciliate
RECURSIVE restart_add_jobs(_, _)
restart_add_jobs(h, list) ==
    IF list = <<>> THEN h
    ELSE restart_add_jobs(add_job(h, "RESTART_PROCESS", Head(list)), Tail(list))

\* RestartStrategy.conciliate: the six sets and the calls when it returns
restart_conciliate(h, list, job_apps, stopped) ==
    trigger_jobs(restart_add_jobs(h, list), job_apps, stopped)

\* failure_handler.add_default_job(process)
add_default_job(h, process, rl) == add_job(h, rl[process], process)

\* the adds of the loop of FailureStrategy.conciliate
RECURSIVE failure_add_jobs(_, _, _)
failure_add_jobs(h, list, rl) ==
    IF list = <<>> THEN h
    ELSE failure_add_jobs(add_default_job(h, Head(list), rl), Tail(list), rl)

\* variant: the jobs are triggered after each conflict
RECURSIVE failure_conciliate_each(_, _, _, _, _)
failure_conciliate_each(h, list, rl, job_apps, stopped) ==
    IF list = <<>> THEN trigger_jobs(h, {}, {})
    ELSE LET t == trigger_jobs(add_default_job(h, Head(list), rl), job_apps, stopped)
             r == failure_conciliate_each(t, Tail(list), rl, job_apps, stopped)
         IN  [r EXCEPT !.calls = @ \cup t.calls
                                   \cup {Call("stopper", "stop_process", Head(list), 0)}]

\* FailureStrategy.conciliate: the six sets and the calls when it returns
failure_conciliate(h, list, rl, job_apps, stopped) ==
    LET t == trigger_jobs(failure_add_jobs(h, list, rl), job_apps, stopped) IN
    [t EXCEPT !.calls = @ \cup {Call("stopper", "stop_process", p, 0) : p \in Range(list)}]

\* process.conflicting(): the process runs on more than one node
Conflicting == {p \in Procs : Cardinality(running_nodes[p]) > 1}

\* the lists holding each process of a set once
Orderings(processes) ==
    {list \in [1 .. Cardinality(processes) -> processes] :
        \A i, j \in DOMAIN list : list[i] = list[j] => i = j}

\* node -> uptime, for every set of running nodes
ProcessRunning == UNION {[running -> Uptimes] : running \in SUBSET NodeNames}

\* the same for a process running on the local node only or on two nodes, with
\* the smallest uptime everywhere
ProcessRunningEven ==
    {info \in ProcessRunning :
        /\ DOMAIN info \in {{"A"}, {"A", "B"}}
        /\ \A n \in DOMAIN info, u \in Uptimes : info[n] <= u}

\* the strategies that read the uptimes
UptimeStrategies == {"SENICIDE", "INFANTICIDE"}

\* the handler when conciliation begins: empty or holding one job
PriorHandlers ==
    {EmptyHandler}
    \cup {add_job(EmptyHandler, s, p) : s \in RunningFailureStrategies, p \in Procs}

\* the inputs a strategy does not read are given one value
ConciliationInit ==
    /\ NoStarting
    /\ NoRpc
    /\ NoCluster
    /\ last_call = NoCall
    /\ before = EmptyHandler
    /\ job_applications = {}
    /\ stopped_processes = {}
    /\ calls = {}
    /\ pending_calls = {}
    /\ conciliation_strategy \in ConciliationStrategies
    /\ info_map \in [Procs -> IF conciliation_strategy \in UptimeStrategies
                              THEN ProcessRunning ELSE ProcessRunningEven]
    /\ running_nodes = [p \in Procs |-> DOMAIN info_map[p]]
    /\ rules \in IF conciliation_strategy = "RUNNING_FAILURE"
                 THEN [Procs -> RunningFailureStrategies]
                 ELSE {[p \in Procs |-> "CONTINUE"]}
    /\ \E h \in IF conciliation_strategy \in UptimeStrategies
                THEN {EmptyHandler} ELSE PriorHandlers :
          /\ stop_application_jobs = h.stop_application_jobs
          /\ restart_application_jobs = h.restart_application_jobs
          /\ restart_process_jobs = h.restart_process_jobs
          /\ continue_process_jobs = h.continue_process_jobs
          /\ start_application_jobs = h.start_application_jobs
          /\ start_process_jobs = h.start_process_jobs
    /\ conflicts = <<>>
    /\ saved_nodes = <<>>
    /\ stop_requests = {}
    /\ conciliated = FALSE

\* what every conciliate call records
Conciliated(list) ==
    /\ conciliated' = TRUE
    /\ conflicts' = list
    /\ last_call' = [op |-> "conciliate", strategy |-> conciliation_strategy,
                     process |-> NoProcess, again |-> FALSE]
    /\ before' = Handler
    /\ UNCHANGED <<conciliation_strategy, running_nodes, info_map, rules, pending_calls>>
    /\ UNCHANGED starting_vars
    /\ UNCHANGED rpc_vars
    /\ UNCHANGED cluster_vars

\* SenicideStrategy.conciliate(conflicts)
ConciliateSenicide ==
    /\ ~conciliated
    /\ conciliation_strategy = "SENICIDE"
    /\ \E list \in Orderings(Conflicting), saved \in [Conflicting -> NodeNames] :
          /\ \A p \in Conflicting :
                saved[p] \in senicide_saved_nodes(running_nodes[p], info_map[p])
          /\ Conciliated(list)
          /\ saved_nodes' = saved
          /\ stop_requests' = UNION {send_stop_process_others(p, running_nodes[p], saved[p]) :
                                        p \in Range(list)}
          /\ UNCHANGED <<handler_vars, job_applications, stopped_processes, calls>>

\* InfanticideStrategy.conciliate(conflicts)
ConciliateInfanticide ==
    /\ ~conciliated
    /\ conciliation_strategy = "INFANTICIDE"
    /\ \E list \in Orderings(Conflicting), saved \in [Conflicting -> NodeNames] :
          /\ \A p \in Conflicting :
                saved[p] \in infanticide_saved_nodes(running_nodes[p], info_map[p])
          /\ Conciliated(list)
          /\ saved_nodes' = saved
          /\ stop_requests' = UNION {send_stop_process_others(p, running_nodes[p], saved[p]) :
                                        p \in Range(list)}
          /\ UNCHANGED <<handler_vars, job_applications, stopped_processes, calls>>

\* UserStrategy.conciliate(conflicts)
ConciliateUser ==
    /\ ~conciliated
    /\ conciliation_strategy = "USER"
    /\ \E list \in Orderings(Conflicting) :
          /\ Conciliated(list)
          /\ UNCHANGED <<saved_nodes, stop_requests>>
          /\ UNCHANGED <<handler_vars, job_applications, stopped_processes, calls>>

\* StopStrategy.conciliate(conflicts)
ConciliateStop ==
    /\ ~conciliated
    /\ conciliation_strategy = "STOP"
    /\ \E list \in Orderings(Conflicting) :
          /\ Conciliated(list)
          /\ calls' = stop_conciliate(list)
          /\ UNCHANGED <<saved_nodes, stop_requests>>
          /\ UNCHANGED <<handler_vars, job_applications, stopped_processes>>

\* RestartStrategy.conciliate(conflicts); a conflicting process is running, its
\* stopped() does not hold
ConciliateRestart ==
    /\ ~conciliated
    /\ conciliation_strategy = "RESTART"
    /\ \E list \in Orderings(Conflicting) :
        LET added == restart_add_jobs(Handler, list) IN
        \E job_apps \in SUBSET handler_applications(added),
           stopped \in SUBSET (consulted_processes(added) \ Conflicting) :
            LET t == restart_conciliate(Handler, list, job_apps, stopped) IN
            /\ Conciliated(list)
            /\ SetHandler(t)
            /\ calls' = t.calls
            /\ job_applications' = job_apps
            /\ stopped_processes' = stopped
            /\ UNCHANGED <<saved_nodes, stop_requests>>

\* FailureStrategy.conciliate(conflicts)
ConciliateFailure ==
    /\ ~conciliated
    /\ conciliation_strategy = "RUNNING_FAILURE"
    /\ \E list \in Orderings(Conflicting) :
        LET added == failure_add_jobs(Handler, list, rules) IN
        \E job_apps \in SUBSET handler_applications(added),
           stopped \in SUBSET (consulted_processes(added) \ Conflicting) :
            LET t == failure_conciliate(Handler, list, rules, job_apps, stopped) IN
            /\ Conciliated(list)
            /\ SetHandler(t)
            /\ calls' = t.calls
            /\ job_applications' = job_apps
            /\ stopped_processes' = stopped
            /\ UNCHANGED <<saved_nodes, stop_requests>>

\* conciliate_conflicts(supvisors, strategy, conflicts)
ConciliationNext ==
    \/ ConciliateSenicide
    \/ ConciliateInfanticide
    \/ ConciliateUser
    \/ ConciliateStop
    \/ ConciliateRestart
    \/ ConciliateFailure

SpecConciliation == ConciliationInit /\ [][ConciliationNext]_vars

\* ---- the RPC interface: one command is received in some state of the FSM;
\* when it returns a deferred job, the job is polled until it gives a final
\* answer. What the context, Starter and Stopper answer is an input of the
\* command and of each poll.
SupvisorsStates ==
    {"INITIALIZATION", "DEPLOYMENT", "OPERATION", "CONCILIATION", "RESTARTING",
     "SHUTTING_DOWN", "SHUTDOWN"}

ApplicationStates == {"STOPPED", "STARTING", "RUNNING", "STOPPING"}

\* the strategies a client may give: those of the enumeration and one that is not
RpcStrategies == StartingStrategies \cup {"none"}

Faults ==
    {"BAD_SUPVISORS_STATE", "BAD_STRATEGY", "BAD_NAME", "ALREADY_STARTED",
     "ABNORMAL_TERMINATION"}

\* what the context knows of a process: its state and where it runs
ProcessInfos ==
    {[state |-> "STOPPED", addresses |-> {}],
     [state |-> "RUNNING", addresses |-> {"A"}],
     [state |-> "RUNNING", addresses |-> {"A", "B"}],
     [state |-> "STOPPING", addresses |-> {"A"}]}

\* process.running() and process.stopped()
process_running(info) == info.state = "RUNNING"
process_stopped(info) == info.state = "STOPPED"

\* Python's True and False as results
Bool(b) == IF b THEN "True" ELSE "False"

\* what a command or a poll did: the value returned ("DEFERRED" for a deferred
\* job) or the fault raised, the requests made, and the deferred job
Outcome(result, starter_stopper, stop_rpcs, deferred) ==
    [result |-> result, calls |-> starter_stopper, requests |-> stop_rpcs, job |-> deferred]

\* raise RPCError(fault)
Fault(fault) == Outcome(fault, {}, {}, NoJob)

\* _check_state(states): TRUE when the state is one of the states
check_state(states) == fsm_state \in states

\* variant: DEPLOYMENT is accepted too
check_operating_or_deployment == check_state({"DEPLOYMENT", "OPERATION"})

check_operating == check_state({"OPERATION"})

check_operating_conciliation == check_state({"OPERATION", "CONCILIATION"})

\* variant: the starter is not looked at
onwait_start_application_at_once(busy, state) ==
    IF state # "RUNNING" THEN "ABNORMAL_TERMINATION" ELSE "True"

\* onwait of start_application
onwait_start_application(busy, state) ==
    IF busy THEN "NOT_DONE_YET"
    ELSE IF state # "RUNNING" THEN "ABNORMAL_TERMINATION"
    ELSE "True"

\* onwait of stop_application
onwait_stop_application(busy, state) ==
    IF busy THEN "NOT_DONE_YET"
    ELSE IF state # "STOPPED" THEN "ABNORMAL_TERMINATION"
    ELSE "True"

\* onwait of start_process
onwait_start_process(busy, infos, targets) ==
    IF busy THEN "NOT_DONE_YET"
    ELSE IF \E p \in targets : process_stopped(infos[p]) THEN "ABNORMAL_TERMINATION"
    ELSE "True"

\* onwait of stop_process
onwait_stop_process(infos, targets) ==
    IF \E p \in targets : ~process_stopped(infos[p]) THEN "NOT_DONE_YET" ELSE "True"

\* variant: the state of the application is not looked at
start_application_any_state(strategy, name, wait, state, done) ==
    IF ~check_operating THEN Fault("BAD_SUPVISORS_STATE")
    ELSE IF strategy \notin StartingStrategies THEN Fault("BAD_STRATEGY")
    ELSE IF name \notin Apps THEN Fault("BAD_NAME")
    ELSE LET asked == {Call("starter", "start_application", name, 0)} IN
         IF wait /\ ~done
         THEN Outcome("DEFERRED", asked, {},
                      Job("start_application", strategy, name, NoNamespec, {}, wait,
                          FALSE, "none"))
         ELSE Outcome(Bool(~done), asked, {}, NoJob)

\* RPCInterface.start_application
start_application(strategy, name, wait, state, done) ==
    IF ~check_operating THEN Fault("BAD_SUPVISORS_STATE")
    ELSE IF strategy \notin StartingStrategies THEN Fault("BAD_STRATEGY")
    ELSE IF name \notin Apps THEN Fault("BAD_NAME")
    ELSE IF state = "RUNNING" THEN Fault("ALREADY_STARTED")
    ELSE LET asked == {Call("starter", "start_application", name, 0)} IN
         IF wait /\ ~done
         THEN Outcome("DEFERRED", asked, {},
                      Job("start_application", strategy, name, NoNamespec, {}, wait,
                          FALSE, "none"))
         ELSE Outcome(Bool(~done), asked, {}, NoJob)

stop_application(name, wait, done) ==
    IF ~check_operating_conciliation THEN Fault("BAD_SUPVISORS_STATE")
    ELSE IF name \notin Apps THEN Fault("BAD_NAME")
    ELSE LET asked == {Call("stopper", "stop_application", name, 0)} IN
         IF wait /\ ~done
         THEN Outcome("DEFERRED", asked, {},
                      Job("stop_application", "none", name, NoNamespec, {}, wait,
                          FALSE, "none"))
         ELSE Outcome(Bool(~done), asked, {}, NoJob)

restart_application(strategy, name, wait, done) ==
    IF ~check_operating THEN Fault("BAD_SUPVISORS_STATE")
    ELSE LET stop == stop_application(name, TRUE, done) IN
         IF stop.result \in Faults THEN stop
         ELSE Outcome("DEFERRED", stop.calls, {},
                      Job("restart_application", strategy, name, NoNamespec, {}, wait, TRUE,
                          IF stop.result = "DEFERRED" THEN "stop_application" ELSE "bool"))

\* _get_application_process(namespec) finds the application and the process
known_namespec(namespec) ==
    /\ namespec.group \in Apps
    /\ namespec.name \in Procs \cup {NoProcess}

\* processes = [process] if process else application.processes.values()
processes_of(namespec) ==
    IF ~known_namespec(namespec) THEN {}
    ELSE IF namespec.name = NoProcess THEN {p \in Procs : application_name(p) = namespec.group}
    ELSE {namespec.name}

\* variant: the processes met before a running one are started
start_process_until_running(strategy, namespec, wait, infos, dones) ==
    IF ~check_operating THEN Fault("BAD_SUPVISORS_STATE")
    ELSE IF strategy \notin StartingStrategies THEN Fault("BAD_STRATEGY")
    ELSE IF ~known_namespec(namespec) THEN Fault("BAD_NAME")
    ELSE IF \E p \in processes_of(namespec) : process_running(infos[p])
         THEN Outcome("ALREADY_STARTED",
                      {Call("starter", "start_process", p, 0) :
                          p \in {q \in processes_of(namespec) :
                                    /\ ~process_running(infos[q])
                                    /\ \E r \in processes_of(namespec) :
                                          r > q /\ process_running(infos[r])}},
                      {}, NoJob)
    ELSE LET asked == {Call("starter", "start_process", p, 0) : p \in processes_of(namespec)}
             done == \A p \in processes_of(namespec) : dones[p]
         IN  IF wait /\ ~done
             THEN Outcome("DEFERRED", asked, {},
                          Job("start_process", strategy, NoApp, namespec,
                              processes_of(namespec), wait, FALSE, "none"))
             ELSE Outcome(Bool(~done), asked, {}, NoJob)

\* RPCInterface.start_process
start_process(strategy, namespec, wait, infos, dones) ==
    IF ~check_operating THEN Fault("BAD_SUPVISORS_STATE")
    ELSE IF strategy \notin StartingStrategies THEN Fault("BAD_STRATEGY")
    ELSE IF ~known_namespec(namespec) THEN Fault("BAD_NAME")
    ELSE IF \E p \in processes_of(namespec) : process_running(infos[p]) THEN Fault("ALREADY_STARTED")
    ELSE LET asked == {Call("starter", "start_process", p, 0) : p \in processes_of(namespec)}
             done == \A p \in processes_of(namespec) : dones[p]
         IN  IF wait /\ ~done
             THEN Outcome("DEFERRED", asked, {},
                          Job("start_process", strategy, NoApp, namespec,
                              processes_of(namespec), wait, FALSE, "none"))
             ELSE Outcome(Bool(~done), asked, {}, NoJob)

\* variant: a stop is requested for every targeted process
stop_process_every_target(namespec, wait, infos) ==
    IF ~check_operating_conciliation THEN Fault("BAD_SUPVISORS_STATE")
    ELSE IF ~known_namespec(namespec) THEN Fault("BAD_NAME")
    ELSE LET sent == UNION {{<<a, p>> : a \in infos[p].addresses} :
                               p \in processes_of(namespec)}
         IN  IF wait
             THEN Outcome("DEFERRED", {}, sent,
                          Job("stop_process", "none", NoApp, namespec,
                              processes_of(namespec), wait, FALSE, "none"))
             ELSE Outcome("True", {}, sent, NoJob)

\* RPCInterface.stop_process
stop_process(namespec, wait, infos) ==
    IF ~check_operating_conciliation THEN Fault("BAD_SUPVISORS_STATE")
    ELSE IF ~known_namespec(namespec) THEN Fault("BAD_NAME")
    ELSE LET sent == UNION {{<<a, p>> : a \in infos[p].addresses} :
                               p \in {q \in processes_of(namespec) : process_running(infos[q])}}
         IN  IF wait
             THEN Outcome("DEFERRED", {}, sent,
                          Job("stop_process", "none", NoApp, namespec,
                              processes_of(namespec), wait, FALSE, "none"))
             ELSE Outcome("True", {}, sent, NoJob)

restart_process(strategy, namespec, wait, infos) ==
    IF ~check_operating THEN Fault("BAD_SUPVISORS_STATE")
    ELSE LET stop == stop_process(namespec, TRUE, infos) IN
         IF stop.result \in Faults THEN stop
         ELSE Outcome("DEFERRED", {}, stop.requests,
                      Job("restart_process", strategy, NoApp, namespec,
                          processes_of(namespec), wait, TRUE, "stop_process"))

\* a poll that calls nothing: the job goes on after NOT_DONE_YET and is over
\* after anything else
Polled(j, value) ==
    Outcome(value, {}, {}, IF value = "NOT_DONE_YET" THEN j ELSE NoJob)

\* variant: the start is requested at the first poll
onwait_restart_application_at_once(j, busy, state, done) ==
    IF j.waitstop
    THEN LET value == "True"
         IN  IF value = "True"
             THEN LET start == start_application(j.strategy, j.application_name, j.wait,
                                                 state, done)
                  IN  IF start.result = "DEFERRED"
                      THEN Outcome("NOT_DONE_YET", start.calls, {},
                                   [j EXCEPT !.waitstop = FALSE,
                                             !.inner = "start_application"])
                      ELSE Outcome(start.result, start.calls, {}, NoJob)
             ELSE Polled(j, value)
    ELSE Polled(j, onwait_start_application(busy, state))

\* onwait of restart_application
onwait_restart_application(j, busy, state, done) ==
    IF j.waitstop
    THEN LET value == IF j.inner = "bool" THEN "True"
                      ELSE onwait_stop_application(busy, state)
         IN  IF value = "True"
             THEN LET start == start_application(j.strategy, j.application_name, j.wait,
                                                 state, done)
                  IN  IF start.result = "DEFERRED"
                      THEN Outcome("NOT_DONE_YET", start.calls, {},
                                   [j EXCEPT !.waitstop = FALSE,
                                             !.inner = "start_application"])
                      ELSE Outcome(start.result, start.calls, {}, NoJob)
             ELSE Polled(j, value)
    ELSE Polled(j, onwait_start_application(busy, state))

\* onwait of restart_process
onwait_restart_process(j, busy, infos, dones) ==
    IF j.waitstop
    THEN LET value == onwait_stop_process(infos, j.targets) IN
         IF value = "True"
         THEN LET start == start_process(j.strategy, j.namespec, j.wait, infos, dones) IN
              IF start.result = "DEFERRED"
              THEN Outcome("NOT_DONE_YET", start.calls, {},
                           [j EXCEPT !.waitstop = FALSE, !.inner = "start_process"])
              ELSE Outcome(start.result, start.calls, {}, NoJob)
         ELSE Polled(j, value)
    ELSE Polled(j, onwait_start_process(busy, infos, j.targets))

RpcInit ==
    /\ HandlerInit
    /\ NoStarting
    /\ NoConciliation
    /\ NoCluster
    /\ fsm_state \in SupvisorsStates
    /\ rpc = NoCommand
    /\ rpc_result = "none"
    /\ rpc_calls = {}
    /\ requester_calls = {}
    /\ job = NoJob
    /\ poll_result = "none"
    /\ in_progress = FALSE
    /\ application_state = "none"
    /\ process_states = <<>>

\* the command returns: what it answered and asked for is recorded
Returned(command, outcome, state, infos) ==
    /\ rpc = NoCommand
    /\ rpc' = command
    /\ rpc_result' = outcome.result
    /\ rpc_calls' = outcome.calls
    /\ requester_calls' = outcome.requests
    /\ job' = outcome.job
    /\ application_state' = state
    /\ process_states' = infos
    /\ UNCHANGED <<fsm_state, poll_result, in_progress>>
    /\ UNCHANGED <<failure_vars, starting_vars, conciliation_vars>>
    /\ UNCHANGED cluster_vars

Command(method, strategy, name, namespec, wait, done) ==
    [method |-> method, strategy |-> strategy, application_name |-> name,
     namespec |-> namespec, wait |-> wait, done |-> done]

\* the answers of the context about the processes of a namespec
InfosOf(namespec) == [processes_of(namespec) -> ProcessInfos]

StartApplication ==
    \E strategy \in RpcStrategies, name \in AppNames, wait \in BOOLEAN,
       state \in ApplicationStates, done \in BOOLEAN :
        Returned(Command("start_application", strategy, name, NoNamespec, wait, done),
                 start_application(strategy, name, wait, state, done), state, <<>>)

StopApplication ==
    \E name \in AppNames, wait \in BOOLEAN, done \in BOOLEAN :
        Returned(Command("stop_application", "none", name, NoNamespec, wait, done),
                 stop_application(name, wait, done), "none", <<>>)

RestartApplication ==
    \E strategy \in RpcStrategies, name \in AppNames, wait \in BOOLEAN, done \in BOOLEAN :
        Returned(Command("restart_application", strategy, name, NoNamespec, wait, done),
                 restart_application(strategy, name, wait, done), "none", <<>>)

StartProcess ==
    \E strategy \in RpcStrategies, namespec \in Namespecs, wait \in BOOLEAN :
        \E infos \in InfosOf(namespec), dones \in [processes_of(namespec) -> BOOLEAN] :
            Returned(Command("start_process", strategy, NoApp, namespec, wait,
                             \A p \in processes_of(namespec) : dones[p]),
                     start_process(strategy, namespec, wait, infos, dones), "none", infos)

StopProcess ==
    \E namespec \in Namespecs, wait \in BOOLEAN :
        \E infos \in InfosOf(namespec) :
            Returned(Command("stop_process", "none", NoApp, namespec, wait, FALSE),
                     stop_process(namespec, wait, infos), "none", infos)

RestartProcess ==
    \E strategy \in RpcStrategies, namespec \in Namespecs, wait \in BOOLEAN :
        \E infos \in InfosOf(namespec) :
            Returned(Command("restart_process", strategy, NoApp, namespec, wait, FALSE),
                     restart_process(strategy, namespec, wait, infos), "none", infos)

\* the poll returns: what it answered and asked for is recorded
PollReturned(outcome, busy, state, infos) ==
    /\ poll_result' = outcome.result
    /\ rpc_calls' = outcome.calls
    /\ requester_calls' = outcome.requests
    /\ job' = outcome.job
    /\ in_progress' = busy
    /\ application_state' = state
    /\ process_states' = infos
    /\ UNCHANGED <<fsm_state, rpc, rpc_result>>
    /\ UNCHANGED <<failure_vars, starting_vars, conciliation_vars>>
    /\ UNCHANGED cluster_vars

PollStartApplication ==
    /\ job.kind = "start_application"
    /\ \E busy \in BOOLEAN, state \in ApplicationStates :
          PollReturned(Polled(job, onwait_start_application(busy, state)), busy, state, <<>>)

PollStopApplication ==
    /\ job.kind = "stop_application"
    /\ \E busy \in BOOLEAN, state \in ApplicationStates :
          PollReturned(Polled(job, onwait_stop_application(busy, state)), busy, state, <<>>)

PollStartProcess ==
    /\ job.kind = "start_process"
    /\ \E busy \in BOOLEAN, infos \in [job.targets -> ProcessInfos] :
          PollReturned(Polled(job, onwait_start_process(busy, infos, job.targets)),
                       busy, "none", infos)

PollStopProcess ==
    /\ job.kind = "stop_process"
    /\ \E infos \in [job.targets -> ProcessInfos] :
          PollReturned(Polled(job, onwait_stop_process(infos, job.targets)),
                       FALSE, "none", infos)

PollRestartApplication ==
    /\ job.kind = "restart_application"
    /\ \E busy \in BOOLEAN, state \in ApplicationStates, done \in BOOLEAN :
          PollReturned(onwait_restart_application(job, busy, state, done), busy, state, <<>>)

PollRestartProcess ==
    /\ job.kind = "restart_process"
    /\ \E busy \in BOOLEAN, infos \in [job.targets -> ProcessInfos] :
          \E dones \in [job.targets -> BOOLEAN] :
              PollReturned(onwait_restart_process(job, busy, infos, dones),
                           busy, "none", infos)

RpcNext ==
    \/ StartApplication
    \/ StopApplication
    \/ RestartApplication
    \/ StartProcess
    \/ StopProcess
    \/ RestartProcess
    \/ PollStartApplication
    \/ PollStopApplication
    \/ PollStartProcess
    \/ PollStopProcess
    \/ PollRestartApplication
    \/ PollRestartProcess

SpecRpc == RpcInit /\ [][RpcNext]_vars

\* ------------------------------------------------- restart() / shutdown()
\* context.addresses.values(): the status of the local address
\* (RPCInterface.address), and of any of three remote addresses, in any order
AddressLists ==
    UNION {UNION {{[i \in DOMAIN list |->
                      [address |-> list[i],
                       state |-> IF list[i] = local_node_name THEN "RUNNING"
                                 ELSE states[list[i]]]] :
                    states \in [remotes -> AddressStates]} :
                  list \in Orderings(remotes \cup {local_node_name})} :
           remotes \in SUBSET ((NodeNames \cup {"D"}) \ {local_node_name})}

\* the addresses that the loop of _send_addresses_func gives to func
RECURSIVE remote_requests_until_error(_, _)
remote_requests_until_error(statuses, outcomes) ==
    IF statuses = <<>>
    THEN <<>>
    ELSE LET status == Head(statuses) IN
         IF status.address # local_node_name /\ status.state = "RUNNING"
         THEN IF outcomes[status.address] = "RPCError"
              THEN <<status.address>>
              ELSE <<status.address>> \o remote_requests_until_error(Tail(statuses), outcomes)
         ELSE remote_requests_until_error(Tail(statuses), outcomes)

RECURSIVE remote_requests(_, _)
remote_requests(statuses, outcomes) ==
    IF statuses = <<>>
    THEN <<>>
    ELSE LET status == Head(statuses) IN
         IF status.address # local_node_name /\ status.state = "RUNNING"
         THEN <<status.address>> \o remote_requests(Tail(statuses), outcomes)
         ELSE remote_requests(Tail(statuses), outcomes)

\* _send_addresses_func(func): the remote requests, then func(self.address),
\* whose result (or fault) is the result of the command
send_addresses_func(statuses, outcomes) ==
    [requests |-> remote_requests(statuses, outcomes) \o <<local_node_name>>,
     result |-> IF outcomes[local_node_name] = "RPCError" THEN "RPCError" ELSE "True"]

AddressesInit ==
    /\ HandlerInit /\ NoStarting /\ NoConciliation /\ NoRpc
    /\ NewPool
    /\ NoApplication
    /\ NoStarter
    /\ NoFsm
    /\ addresses \in AddressLists
    /\ func = "none"
    /\ func_outcomes = <<>>
    /\ func_requests = <<>>
    /\ func_result = "none"

\* restart() and shutdown(): func(address) returns, or raises the RPCError
\* that the loop catches, for each address that func may be called with
SendAddressesFunc(name) ==
    /\ func = "none"
    /\ \E outcomes \in [{addresses[i].address :
                            i \in {j \in DOMAIN addresses : addresses[j].state = "RUNNING"}}
                        \cup {local_node_name} -> {"done", "RPCError"}] :
          LET sent == send_addresses_func(addresses, outcomes) IN
          /\ func' = name
          /\ func_outcomes' = outcomes
          /\ func_requests' = sent.requests
          /\ func_result' = sent.result
    /\ UNCHANGED addresses
    /\ UNCHANGED <<failure_vars, starting_vars, conciliation_vars, rpc_vars>>
    /\ UNCHANGED <<pool_vars, application_vars, starter_vars, master_vars>>

AddressesNext == \E name \in {"restart", "shutdown"} : SendAddressesFunc(name)

SpecAddresses == AddressesInit /\ [][AddressesNext]_vars

\* ---------------------------------------------------------- SupvisorsPool
\* what a remote call of a request does: it returns, or raises (a connection
\* error or a timeout of the socket, a fault answered by the peer)
RpcOutcomes == {"done", "socket.error", "Fault"}

\* the states that the peer holds for the local address and for itself:
\* status['statecode'] answered by get_address_info is a state, or an unknown code
AddressInfos(address_name) ==
    [{local_node_name, address_name} -> AddressStates \cup {"128"}]

\* except: pass -- how a request function ends when one of its statements raised
on_exception_rpc_only(exception) == IF exception = "Fault" THEN "returns" ELSE "raises"

on_exception(exception) == "returns"

\* status = remote_proxy.supvisors.get_address_info(address_name)
\* authorized = status['statecode'] not in [ISOLATING, ISOLATED]
check_authorized(info, address_name) == info[address_name] \notin {"ISOLATING", "ISOLATED"}

\* async_check_address up to its calls of the local supervisor: the state
\* asked to the peer, the authorization, and when authorized the process info
\* of the peer put in the queue (the queue of a manager that was shut down raises)
async_check_address_auth_first(address_name, info, info_outcome, process_outcome, manager_state) ==
    LET Checked(exception, rpc_failed, auth, put, pending) ==
            [exception |-> exception, rpc_failed |-> rpc_failed, authorized |-> auth,
             put |-> put, pending |-> pending]
    IN
    IF info_outcome # "done"
    THEN Checked(info_outcome, TRUE, "none", FALSE, <<>>)
    ELSE IF check_authorized(info, address_name)
         THEN IF process_outcome # "done"
              THEN Checked(process_outcome, TRUE, "True", FALSE, <<>>)
              ELSE IF manager_state # "started"
                   THEN Checked("IOError", FALSE, "True", FALSE, <<>>)
                   ELSE Checked("none", FALSE, "True", TRUE,
                                <<"SUPVISORS_AUTH", "SUPVISORS_INFO">>)
         ELSE Checked("none", FALSE, "False", FALSE, <<"SUPVISORS_AUTH">>)

async_check_address(address_name, info, info_outcome, process_outcome, manager_state) ==
    LET Checked(exception, rpc_failed, auth, put, pending) ==
            [exception |-> exception, rpc_failed |-> rpc_failed, authorized |-> auth,
             put |-> put, pending |-> pending]
    IN
    IF info_outcome # "done"
    THEN Checked(info_outcome, TRUE, "none", FALSE, <<>>)
    ELSE IF check_authorized(info, address_name)
         THEN IF process_outcome # "done"
              THEN Checked(process_outcome, TRUE, "True", FALSE, <<>>)
              ELSE IF manager_state # "started"
                   THEN Checked("IOError", FALSE, "True", FALSE, <<>>)
                   ELSE Checked("none", FALSE, "True", TRUE,
                                <<"SUPVISORS_INFO", "SUPVISORS_AUTH">>)
         ELSE Checked("none", FALSE, "False", FALSE, <<"SUPVISORS_AUTH">>)

\* Context: a peer whose tick arrives is CHECKING until the authorization comes
on_tick_event(states, address_name) == [states EXCEPT ![address_name] = "CHECKING"]

\* Context: the authorization event makes the peer RUNNING, or ISOLATED
on_authorization(states, address_name, auth) ==
    [states EXCEPT ![address_name] = IF auth = "True" THEN "RUNNING" ELSE "ISOLATED"]

\* the statements of SupvisorsPool.close, in order
close_steps_join == <<"info_queue = None", "manager.shutdown", "pool.terminate", "pool.join">>

close_steps == <<"info_queue = None", "manager.shutdown", "pool.terminate">>

\* the main thread of the local supervisor is inside close()
Closing == close_pc \in 1 .. Len(close_steps) - 1

PoolInit == HandlerInit /\ NoStarting /\ NoConciliation /\ NoRpc /\ NoCluster

\* self.pool.apply_async(function, (address_name, ...)): a pool that is not
\* running takes no request
ApplyAsync(name, address_name) ==
    /\ submitted < MaxRequests
    /\ ~Closing
    /\ submitted' = submitted + 1
    /\ IF pool_state = "RUN"
       THEN /\ task_queue' = Append(task_queue, Task(name, address_name, <<>>))
            /\ apply_result' = "queued"
       ELSE /\ task_queue' = task_queue
            /\ apply_result' = "raised"
    /\ node_state' = IF name = "async_check_address"
                     THEN on_tick_event(node_state, address_name)
                     ELSE node_state
    /\ UNCHANGED <<pool_state, manager, info_queue, queue_items, worker, address_info,
                   authorized, comm_events, sent_requests, failed, returned, close_pc>>
    /\ UNCHANGED <<failure_vars, starting_vars, conciliation_vars, rpc_vars, addresses_vars>>
    /\ UNCHANGED <<application_vars, starter_vars, master_vars>>

\* the worker takes the next request, and runs async_check_address up to the
\* events for the local supervisor
AsyncCheckAddress ==
    /\ worker = NoTask
    /\ task_queue # <<>>
    /\ Head(task_queue).func = "async_check_address"
    /\ task_queue' = Tail(task_queue)
    /\ LET address_name == Head(task_queue).address_name IN
       \E info \in AddressInfos(address_name), info_outcome \in RpcOutcomes,
          process_outcome \in RpcOutcomes :
           LET check == async_check_address(address_name, info, info_outcome,
                                            process_outcome, manager) IN
           /\ address_info' = IF info_outcome = "done" THEN info ELSE <<>>
           /\ authorized' = check.authorized
           /\ queue_items' = IF check.put THEN Append(queue_items, address_name)
                             ELSE queue_items
           /\ failed' = IF check.rpc_failed THEN failed \cup {address_name} ELSE failed
           /\ IF check.exception = "none"
              THEN /\ worker' = Task("async_check_address", address_name, check.pending)
                   /\ returned' = returned
              ELSE /\ worker' = NoTask
                   /\ returned' = on_exception(check.exception)
    /\ UNCHANGED <<pool_state, manager, info_queue, apply_result, submitted, comm_events,
                   sent_requests, close_pc, node_state>>
    /\ UNCHANGED <<failure_vars, starting_vars, conciliation_vars, rpc_vars, addresses_vars>>
    /\ UNCHANGED <<application_vars, starter_vars, master_vars>>

\* the worker calls sendRemoteCommEvent(type, data) of the local supervisor,
\* which answers only while its main thread is not inside close():
\* SUPVISORS_INFO carries no data, SUPVISORS_AUTH 'address_name:{} authorized:{}'
SendRemoteCommEvent ==
    /\ worker.pending # <<>>
    /\ ~Closing
    /\ \E outcome \in RpcOutcomes :
          IF outcome = "done"
          THEN LET type == Head(worker.pending)
                   rest == Tail(worker.pending) IN
               /\ comm_events' = Append(comm_events,
                      IF type = "SUPVISORS_AUTH"
                      THEN [type |-> type, address_name |-> worker.address_name,
                            authorized |-> authorized]
                      ELSE [type |-> type, address_name |-> None, authorized |-> "none"])
               /\ node_state' = IF type = "SUPVISORS_AUTH"
                                THEN on_authorization(node_state, worker.address_name,
                                                      authorized)
                                ELSE node_state
               /\ worker' = IF rest = <<>> THEN NoTask ELSE [worker EXCEPT !.pending = rest]
               /\ returned' = IF rest = <<>> THEN "returns" ELSE returned
          ELSE /\ worker' = NoTask
               /\ returned' = on_exception(outcome)
               /\ UNCHANGED <<comm_events, node_state>>
    /\ UNCHANGED <<pool_state, manager, info_queue, queue_items, task_queue, apply_result,
                   submitted, address_info, authorized, sent_requests, failed, close_pc>>
    /\ UNCHANGED <<failure_vars, starting_vars, conciliation_vars, rpc_vars, addresses_vars>>
    /\ UNCHANGED <<application_vars, starter_vars, master_vars>>

\* the worker takes the next request, and runs one of the other request
\* functions: one call of the peer
AsyncRequest(name) ==
    /\ worker = NoTask
    /\ task_queue # <<>>
    /\ Head(task_queue).func = name
    /\ task_queue' = Tail(task_queue)
    /\ LET address_name == Head(task_queue).address_name IN
       \E outcome \in RpcOutcomes :
           /\ sent_requests' = IF outcome = "done"
                               THEN sent_requests \cup {<<name, address_name>>}
                               ELSE sent_requests
           /\ failed' = IF outcome = "done" THEN failed ELSE failed \cup {address_name}
           /\ returned' = IF outcome = "done" THEN "returns" ELSE on_exception(outcome)
    /\ UNCHANGED <<pool_state, manager, info_queue, queue_items, apply_result, submitted,
                   worker, address_info, authorized, comm_events, close_pc, node_state>>
    /\ UNCHANGED <<failure_vars, starting_vars, conciliation_vars, rpc_vars, addresses_vars>>
    /\ UNCHANGED <<application_vars, starter_vars, master_vars>>

\* the main thread of the local supervisor executes the next statement of
\* close(); terminate drops the queued requests, and the request in progress
\* is aborted or goes on; a join would wait for the worker to have no request
Close ==
    /\ close_pc < Len(close_steps)
    /\ LET statement == close_steps[close_pc + 1] IN
       /\ statement = "pool.join" => worker = NoTask
       /\ info_queue' = IF statement = "info_queue = None" THEN None ELSE info_queue
       /\ manager' = IF statement = "manager.shutdown" THEN "shutdown" ELSE manager
       /\ IF statement = "pool.terminate"
          THEN /\ pool_state' = "TERMINATE"
               /\ task_queue' = <<>>
               /\ worker' \in {worker, NoTask}
          ELSE UNCHANGED <<pool_state, task_queue, worker>>
    /\ close_pc' = close_pc + 1
    /\ UNCHANGED <<queue_items, apply_result, submitted, address_info, authorized,
                   comm_events, sent_requests, failed, returned, node_state>>
    /\ UNCHANGED <<failure_vars, starting_vars, conciliation_vars, rpc_vars, addresses_vars>>
    /\ UNCHANGED <<application_vars, starter_vars, master_vars>>

PoolNext ==
    \/ \E a \in PoolPeers : ApplyAsync("async_check_address", a)
    \/ \E a \in PoolPeers : ApplyAsync("async_start_process", a)
    \/ \E a \in PoolPeers : ApplyAsync("async_stop_process", a)
    \/ \E a \in PoolPeers : ApplyAsync("async_restart", a)
    \/ \E a \in PoolPeers : ApplyAsync("async_shutdown", a)
    \/ AsyncCheckAddress
    \/ AsyncRequest("async_start_process")
    \/ AsyncRequest("async_stop_process")
    \/ AsyncRequest("async_restart")
    \/ AsyncRequest("async_shutdown")
    \/ SendRemoteCommEvent
    \/ Close

SpecPool == PoolInit /\ [][PoolNext]_vars

\* ------------------------------------------------------ ApplicationStatus
\* the processes of the application, in the order of application.processes
ProcessNames == <<"yeux_00", "yeux_01">>

\* a ProcessStatus, with rules.start_sequence and rules.stop_sequence;
\* expected_exit only matters to a process that EXITED
ProcessStatuses ==
    {ps \in [state : {"STOPPED", "STARTING", "RUNNING", "BACKOFF", "STOPPING", "EXITED",
                      "FATAL"},
             expected_exit : BOOLEAN, required : BOOLEAN,
             start_sequence : {0, 1}, stop_sequence : {0, 1}] :
        ps.state # "EXITED" => ps.expected_exit}

\* for process in self.processes.values(): fill both sequences, each with
\* sequence.setdefault(value, []).append(process)
RECURSIVE fill_sequences(_, _, _)
fill_sequences(names, procs, sequences) ==
    IF names = <<>>
    THEN sequences
    ELSE LET process == Head(names)
             setdefault_append(sequence, value, appended) ==
                 IF value \in DOMAIN sequence
                 THEN [sequence EXCEPT ![value] = Append(@, appended)]
                 ELSE (value :> <<appended>>) @@ sequence
         IN
         fill_sequences(Tail(names), procs,
             [start_sequence |-> setdefault_append(sequences.start_sequence,
                                                   procs[process].start_sequence, process),
              stop_sequence |-> setdefault_append(sequences.stop_sequence,
                                                  procs[process].stop_sequence, process)])

\* ApplicationStatus.update_sequences: both sequences are cleared, then
\* filled from the rules of the processes when the application is managed
update_sequences_no_clear(sequences, is_managed, procs) ==
    IF is_managed THEN fill_sequences(ProcessNames, procs, sequences) ELSE sequences

update_sequences(sequences, is_managed, procs) ==
    LET cleared == [start_sequence |-> <<>>, stop_sequence |-> <<>>] IN
    IF is_managed THEN fill_sequences(ProcessNames, procs, cleared) ELSE cleared

\* the loop of update_status over the sequenced processes, and what each
\* process adds to the evaluation
RECURSIVE evaluate_all(_, _, _, _)
evaluate_all(names, procs, sequenced, flags) ==
    IF names = <<>>
    THEN flags
    ELSE LET ps == procs[Head(names)]
             evaluated ==
                 IF ps.state = "RUNNING" THEN [flags EXCEPT !.running = TRUE]
                 ELSE IF ps.state \in {"STARTING", "BACKOFF"}
                      THEN [flags EXCEPT !.starting = TRUE]
                 ELSE IF ps.state = "STOPPING" THEN [flags EXCEPT !.stopping = TRUE]
                 ELSE IF ps.required THEN [flags EXCEPT !.major_failure = TRUE]
                 ELSE IF ps.state = "FATAL" \/ (ps.state = "EXITED" /\ ~ps.expected_exit)
                      THEN [flags EXCEPT !.minor_failure = TRUE]
                 ELSE flags
         IN  evaluate_all(Tail(names), procs, sequenced,
                          IF Head(names) \in sequenced THEN evaluated ELSE flags)

\* the state that update_status gives to the application
application_state_starting_first(flags) ==
    IF flags.starting THEN "STARTING"
    ELSE IF flags.stopping THEN "STOPPING"
    ELSE IF flags.running THEN "RUNNING"
    ELSE "STOPPED"

application_state_of(flags) ==
    IF flags.stopping THEN "STOPPING"
    ELSE IF flags.starting THEN "STARTING"
    ELSE IF flags.running THEN "RUNNING"
    ELSE "STOPPED"

\* the failures that update_status gives to the application
application_failures_when_running(flags, state) ==
    [major_failure |-> flags.major_failure /\ state \in {"STARTING", "RUNNING"},
     minor_failure |-> flags.minor_failure /\ state \in {"STARTING", "RUNNING"}]

application_failures(flags, state) ==
    [major_failure |-> flags.major_failure, minor_failure |-> flags.minor_failure]

\* ApplicationStatus.update_status
update_status(sequence, procs) ==
    LET sequenced_processes ==
            {sequence[value][i] : <<value, i>> \in
                UNION {{<<v, j>> : j \in DOMAIN sequence[v]} : v \in DOMAIN sequence}}
        flags == evaluate_all(ProcessNames, procs, sequenced_processes,
                              [starting |-> FALSE, running |-> FALSE, stopping |-> FALSE,
                               major_failure |-> FALSE, minor_failure |-> FALSE])
        state == application_state_of(flags)
        kept == application_failures(flags, state)
    IN  [state |-> state, major_failure |-> kept.major_failure,
         minor_failure |-> kept.minor_failure]

\* an application filled with processes, not managed by default
ApplicationInit ==
    /\ HandlerInit /\ NoStarting /\ NoConciliation /\ NoRpc
    /\ NoAddresses
    /\ NewPool
    /\ NoStarter
    /\ NoFsm
    /\ application_processes \in [Range(ProcessNames) -> ProcessStatuses]
    /\ managed = FALSE
    /\ start_sequence = <<>>
    /\ stop_sequence = <<>>
    /\ app_state = "STOPPED"
    /\ major_failure = FALSE
    /\ minor_failure = FALSE
    /\ sequences_updated = FALSE
    /\ status_updated = FALSE

\* application.rules.managed = value
SetManaged ==
    /\ managed' = ~managed
    /\ sequences_updated' = FALSE
    /\ status_updated' = FALSE
    /\ UNCHANGED <<application_processes, start_sequence, stop_sequence, app_state,
                   major_failure, minor_failure>>
    /\ UNCHANGED <<failure_vars, starting_vars, conciliation_vars, rpc_vars, addresses_vars,
                   pool_vars, starter_vars, master_vars>>

UpdateSequences ==
    /\ LET sequences == update_sequences([start_sequence |-> start_sequence,
                                          stop_sequence |-> stop_sequence],
                                         managed, application_processes) IN
       /\ start_sequence' = sequences.start_sequence
       /\ stop_sequence' = sequences.stop_sequence
    /\ sequences_updated' = TRUE
    /\ status_updated' = FALSE
    /\ UNCHANGED <<application_processes, managed, app_state, major_failure, minor_failure>>
    /\ UNCHANGED <<failure_vars, starting_vars, conciliation_vars, rpc_vars, addresses_vars,
                   pool_vars, starter_vars, master_vars>>

UpdateStatus ==
    /\ LET updated == update_status(start_sequence, application_processes) IN
       /\ app_state' = updated.state
       /\ major_failure' = updated.major_failure
       /\ minor_failure' = updated.minor_failure
    /\ status_updated' = TRUE
    /\ UNCHANGED <<application_processes, managed, start_sequence, stop_sequence,
                   sequences_updated>>
    /\ UNCHANGED <<failure_vars, starting_vars, conciliation_vars, rpc_vars, addresses_vars,
                   pool_vars, starter_vars, master_vars>>

ApplicationNext == SetManaged \/ UpdateSequences \/ UpdateStatus

SpecApplication == ApplicationInit /\ [][ApplicationNext]_vars

\* ---------------------------------------------------------------- Starter
\* the processes of the application given to the Starter
StarterProcesses == {"q1", "q2", "q3"}

\* the sub-sequences of the processes that are not running, by increasing
\* start_sequence
RECURSIVE sub_sequences(_, _)
sub_sequences(values, procs) ==
    IF values = {}
    THEN <<>>
    ELSE LET value == CHOOSE v \in values : \A w \in values : v <= w
             batch == {process \in DOMAIN procs :
                          /\ procs[process].start_sequence = value
                          /\ procs[process].state # "RUNNING"}
         IN  (IF batch = {} THEN <<>> ELSE <<batch>>)
             \o sub_sequences(values \ {value}, procs)

\* every job of the current sub-sequence has terminated
sub_sequence_over_at_once(jobs) == TRUE

sub_sequence_over(jobs) == jobs = {}

\* the next sub-sequence is popped when the current one is over: a start
\* request is issued for each of its processes that has an eligible node, and
\* a process without one is a starting failure (ABORT and STOP cancel the
\* rest of the sequence, CONTINUE goes on)
pop_next(planned, jobs, no_node, strategy) ==
    IF sub_sequence_over(jobs) /\ planned # <<>>
    THEN LET requests == Head(planned) \ no_node IN
         [planned |-> IF Head(planned) \cap no_node # {} /\ strategy # "CONTINUE"
                      THEN <<>>
                      ELSE Tail(planned),
          jobs |-> jobs \cup requests,
          requests |-> requests,
          failed |-> Head(planned) \cap no_node # {}]
    ELSE [planned |-> planned, jobs |-> jobs, requests |-> {}, failed |-> FALSE]

StarterInit ==
    /\ HandlerInit /\ NoStarting /\ NoConciliation /\ NoRpc
    /\ NoAddresses
    /\ NewPool
    /\ NoApplication
    /\ NoFsm
    /\ starter_processes \in [StarterProcesses ->
                                [start_sequence : {0, 1}, state : {"STOPPED", "RUNNING"}]]
    /\ starting_failure_strategy \in {"ABORT", "STOP", "CONTINUE"}
    /\ planned_sequence = <<>>
    /\ current_jobs = {}
    /\ start_requests = <<>>
    /\ stopper_pushed = FALSE
    /\ starter_called = FALSE

\* the Starter goes on with what pop_next decided
Popped(next) ==
    /\ planned_sequence' = next.planned
    /\ current_jobs' = IF next.failed /\ starting_failure_strategy = "STOP" THEN {}
                       ELSE next.jobs
    /\ start_requests' = IF next.requests = {} THEN start_requests
                         ELSE Append(start_requests, next.requests)

\* Starter.start_application: the sequence is planned and its first
\* sub-sequence requested
StarterStartApplication ==
    /\ ~starter_called
    /\ starter_called' = TRUE
    /\ \E no_node \in SUBSET StarterProcesses :
          LET next == pop_next(sub_sequences({0, 1}, starter_processes), {},
                               no_node, starting_failure_strategy) IN
          /\ Popped(next)
          /\ stopper_pushed' = (next.failed /\ starting_failure_strategy = "STOP")
    /\ UNCHANGED <<starter_processes, starting_failure_strategy>>
    /\ UNCHANGED <<failure_vars, starting_vars, conciliation_vars, rpc_vars, addresses_vars,
                   pool_vars, application_vars, master_vars>>

\* the event of a process whose start was requested: it runs, or it crashed
StarterProcessEvent ==
    /\ \E process \in current_jobs, state \in {"RUNNING", "FATAL"} :
          /\ starter_processes[process].state = "STOPPED"
          /\ starter_processes' = [starter_processes EXCEPT ![process].state = state]
    /\ UNCHANGED <<starting_failure_strategy, planned_sequence, current_jobs, start_requests,
                   stopper_pushed, starter_called>>
    /\ UNCHANGED <<failure_vars, starting_vars, conciliation_vars, rpc_vars, addresses_vars,
                   pool_vars, application_vars, master_vars>>

\* the tick of the Starter: the completed jobs are reaped (RUNNING: success;
\* FATAL or deadline elapsed: failure), the failure strategy is applied, and
\* the next sub-sequence is popped when the current one is over
StarterTick ==
    /\ starter_called
    /\ current_jobs # {} \/ planned_sequence # <<>>
    /\ \E elapsed \in SUBSET {process \in current_jobs :
                                 starter_processes[process].state = "STOPPED"},
          no_node \in SUBSET StarterProcesses :
          LET failures == elapsed \cup {process \in current_jobs :
                                           starter_processes[process].state = "FATAL"}
              reaped == failures \cup {process \in current_jobs :
                                          starter_processes[process].state = "RUNNING"}
              stopped == failures # {} /\ starting_failure_strategy = "STOP"
              jobs == IF stopped THEN {} ELSE current_jobs \ reaped
              planned == IF failures # {} /\ starting_failure_strategy # "CONTINUE"
                         THEN <<>>
                         ELSE planned_sequence
              next == pop_next(planned, jobs, no_node, starting_failure_strategy)
          IN  /\ Popped(next)
              /\ stopper_pushed' = (stopper_pushed \/ stopped
                                    \/ (next.failed /\ starting_failure_strategy = "STOP"))
    /\ UNCHANGED <<starter_processes, starting_failure_strategy, starter_called>>
    /\ UNCHANGED <<failure_vars, starting_vars, conciliation_vars, rpc_vars, addresses_vars,
                   pool_vars, application_vars, master_vars>>

StarterNext == StarterStartApplication \/ StarterProcessEvent \/ StarterTick

SpecStarter == StarterInit /\ [][StarterNext]_vars

\* ------------------------------------------------------------ FSM, master
\* the identifiers of the nodes in lexicographic order
SortedNames == <<"A", "B", "C">>

RunningAddresses(states) == {a \in DOMAIN states : states[a] = "RUNNING"}

\* the master picked on entering DEPLOYMENT: the lexicographically smallest
\* identifier among the RUNNING ones
elect_master_first_running(running, order) == order[1]

elect_master(running, order) ==
    SortedNames[CHOOSE i \in DOMAIN SortedNames :
                   /\ SortedNames[i] \in running
                   /\ \A j \in 1 .. i - 1 : SortedNames[j] \notin running]

\* RPCInterface.get_master_address
get_master_address == master_address

\* one evaluation of the transitions of the FSM
fsm_next(state, states, local, master, order, synchro_timeout, starting, conflict) ==
    IF state = "INITIALIZATION"
    THEN IF /\ states[local] = "RUNNING"
            /\ synchro_timeout \/ RunningAddresses(states) = DOMAIN states
         THEN [state |-> "DEPLOYMENT",
               master |-> elect_master(RunningAddresses(states), order)]
         ELSE [state |-> state, master |-> master]
    ELSE IF states[master] # "RUNNING"
         THEN [state |-> "INITIALIZATION", master |-> None]
    ELSE IF state = "DEPLOYMENT" /\ ~starting
         THEN [state |-> "OPERATION", master |-> master]
    ELSE IF state = "OPERATION" /\ conflict
         THEN [state |-> "CONCILIATION", master |-> master]
    ELSE IF state = "CONCILIATION" /\ ~conflict
         THEN [state |-> "OPERATION", master |-> master]
    ELSE [state |-> state, master |-> master]

FsmInit ==
    /\ HandlerInit /\ NoStarting /\ NoConciliation /\ NoRpc
    /\ NoAddresses
    /\ NewPool
    /\ NoApplication
    /\ NoStarter
    /\ local_address \in NodeNames
    /\ supvisors_state = "INITIALIZATION"
    /\ address_states = [a \in NodeNames |-> "UNKNOWN"]
    /\ master_address = None
    /\ running_order = <<>>
    /\ running_at_entry = {}

\* the tick of a node: the node is RUNNING
OnTickEvent ==
    /\ \E a \in NodeNames :
          /\ address_states[a] # "RUNNING"
          /\ address_states' = [address_states EXCEPT ![a] = "RUNNING"]
          /\ running_order' = IF a \in Range(running_order) THEN running_order
                              ELSE Append(running_order, a)
    /\ UNCHANGED <<supvisors_state, local_address, master_address, running_at_entry>>
    /\ UNCHANGED <<failure_vars, starting_vars, conciliation_vars, rpc_vars, addresses_vars,
                   pool_vars, application_vars, starter_vars>>

\* the timer: the remote nodes whose ticks stopped are SILENT, then the FSM
\* evaluates its transitions
OnTimerEvent ==
    /\ \E silent \in SUBSET (RunningAddresses(address_states) \ {local_address}),
          synchro_timeout \in BOOLEAN, starting \in BOOLEAN, conflict \in BOOLEAN :
          LET states == [a \in NodeNames |->
                            IF a \in silent THEN "SILENT" ELSE address_states[a]]
              next == fsm_next(supvisors_state, states, local_address, master_address,
                               running_order, synchro_timeout, starting, conflict)
          IN  /\ address_states' = states
              /\ supvisors_state' = next.state
              /\ master_address' = next.master
              /\ running_at_entry' =
                    IF supvisors_state = "INITIALIZATION" /\ next.state = "DEPLOYMENT"
                    THEN RunningAddresses(states)
                    ELSE IF next.state = "INITIALIZATION" THEN {}
                    ELSE running_at_entry
    /\ UNCHANGED <<local_address, running_order>>
    /\ UNCHANGED <<failure_vars, starting_vars, conciliation_vars, rpc_vars, addresses_vars,
                   pool_vars, application_vars, starter_vars>>

FsmNext == OnTickEvent \/ OnTimerEvent

SpecFsm == FsmInit /\ [][FsmNext]_vars

\* ================================================================== claims
\* helpers of the statements below
IsAddJob(strategy) == last_call.op = "add_job" /\ last_call.strategy = strategy

IsTriggerJobs == last_call.op = "trigger_jobs"

\* application of the process given to the last add_job
LastApp == application_name(last_call.process)

ProcsOf(app, processes) == {p \in processes : application_name(p) = app}

\* the sets of h, by name, that hold an entry concerning application app
SetsConcerning(h, app) ==
    {n \in {"stop_application_jobs", "restart_application_jobs", "start_application_jobs"} :
        app \in h[n]}
    \cup {n \in {"restart_process_jobs", "continue_process_jobs", "start_process_jobs"} :
        ProcsOf(app, h[n]) # {}}

StopperCalls == {c \in calls : c.commander = "stopper"}
StarterCalls == {c \in calls : c.commander = "starter"}

\* the application a call is about
CallApp(c) ==
    IF c.method \in {"stop_application", "default_start_application"}
    THEN c.arg ELSE application_name(c.arg)

C2_LowerPriorityRemoved ==
    /\ IsAddJob("STOP_APPLICATION") =>
          /\ LastApp \notin restart_application_jobs
          /\ ProcsOf(LastApp, restart_process_jobs \cup continue_process_jobs) = {}
    /\ IsAddJob("RESTART_APPLICATION") =>
          /\ ProcsOf(LastApp, restart_process_jobs \cup continue_process_jobs) = {}
          /\ LastApp \notin stop_application_jobs => LastApp \in restart_application_jobs
    /\ IsAddJob("RESTART_PROCESS") =>
          ProcsOf(LastApp, continue_process_jobs) = {}

\* C2 (amended): STOP_APPLICATION and RESTART_APPLICATION remove every entry of
\* lower priority concerning the application; RESTART_PROCESS(p) removes the
\* CONTINUE entry of p only, the CONTINUE entries of the other processes of the
\* application stay.
C2_LowerPriorityRemovedPerProcess ==
    /\ IsAddJob("STOP_APPLICATION") =>
          /\ LastApp \in stop_application_jobs
          /\ LastApp \notin restart_application_jobs
          /\ ProcsOf(LastApp, restart_process_jobs \cup continue_process_jobs) = {}
    /\ IsAddJob("RESTART_APPLICATION") =>
          /\ ProcsOf(LastApp, restart_process_jobs \cup continue_process_jobs) = {}
          /\ LastApp \notin stop_application_jobs => LastApp \in restart_application_jobs
    /\ IsAddJob("RESTART_PROCESS") =>
          /\ last_call.process \notin continue_process_jobs
          /\ continue_process_jobs = before.continue_process_jobs \ {last_call.process}

\* reached: RESTART_APPLICATION added while a process of the application was to
\* be restarted (scenario S3)
C2_Witness ==
    /\ IsAddJob("RESTART_APPLICATION")
    /\ last_call.process \in before.restart_process_jobs
    /\ LastApp \in restart_application_jobs

\* ---- C3
\* C3: add_job leaves the six sets as they were when a job of higher priority
\* concerning the application is recorded.
C3_NeverDemotes ==
    /\ (IsAddJob("RESTART_APPLICATION") /\ LastApp \in before.stop_application_jobs)
          => Handler = before
    /\ (IsAddJob("RESTART_PROCESS")
          /\ LastApp \in before.stop_application_jobs \cup before.restart_application_jobs)
          => Handler = before
    /\ (IsAddJob("CONTINUE")
          /\ \/ LastApp \in before.stop_application_jobs \cup before.restart_application_jobs
             \/ last_call.process \in before.restart_process_jobs)
          => Handler = before

\* reached: CONTINUE(p) asked while p is to be restarted
C3_Witness ==
    /\ IsAddJob("CONTINUE")
    /\ last_call.process \in before.restart_process_jobs

\* ---- C4
\* C4 as stated: after add_job(STOP_APPLICATION, p) the application of p is in
\* stop_application_jobs and neither it nor any of its processes is in one of
\* the other five sets.
C4_ReducedToStop ==
    IsAddJob("STOP_APPLICATION") =>
        SetsConcerning(Handler, LastApp) = {"stop_application_jobs"}

\* ---- C5
\* C5: a second add_job with the same strategy and the same process, right
\* after the first, changes none of the six sets.
C5_AddJobIdempotent ==
    (last_call.op = "add_job" /\ last_call.again) => Handler = before

\* reached: add_job(RESTART_PROCESS, p) called twice in a row, p recorded
C5_Witness ==
    /\ IsAddJob("RESTART_PROCESS")
    /\ last_call.again
    /\ last_call.process \in restart_process_jobs

\* ---- C6
\* C6: trigger_jobs makes no Starter or Stopper call about an application that
\* Starter or Stopper has in progress, and leaves its entries of the two stop /
\* restart application sets, of restart_process_jobs and of the two deferred
\* sets in place.
C6_DeferredWhileInProgress ==
    IsTriggerJobs =>
        \A app \in job_applications :
            /\ \A c \in calls : CallApp(c) # app
            /\ (app \in stop_application_jobs) = (app \in before.stop_application_jobs)
            /\ (app \in restart_application_jobs) = (app \in before.restart_application_jobs)
            /\ (app \in start_application_jobs) = (app \in before.start_application_jobs)
            /\ ProcsOf(app, restart_process_jobs) = ProcsOf(app, before.restart_process_jobs)
            /\ ProcsOf(app, start_process_jobs) = ProcsOf(app, before.start_process_jobs)

\* reached: a stopped process waits in start_process_jobs and a restart of its
\* application was asked, while the application is in progress
C6_Witness ==
    /\ IsTriggerJobs
    /\ \E p \in before.start_process_jobs :
          /\ application_name(p) \in job_applications
          /\ p \in stopped_processes
          /\ application_name(p) \in before.restart_application_jobs

\* ---- C7
\* C7: an item leaves a restart set in a trigger_jobs call only with a Stopper
\* call for it, and is put in the deferred set; items enter the deferred sets in
\* no other way; a Starter call is made only for a stopped item of the deferred
\* set, after the Stopper call when both are made in the same trigger_jobs, and
\* the item is then out of the deferred set.
C7_StopThenDeferredStart ==
    IsTriggerJobs =>
        /\ \A a \in before.restart_application_jobs \ restart_application_jobs :
              /\ Call("stopper", "stop_application", a, 2) \in calls
              /\ \/ a \in start_application_jobs
                 \/ Call("starter", "default_start_application", a, 4) \in calls
        /\ \A p \in before.restart_process_jobs \ restart_process_jobs :
              /\ Call("stopper", "stop_process", p, 3) \in calls
              /\ \/ p \in start_process_jobs
                 \/ Call("starter", "default_start_process", p, 5) \in calls
        /\ start_application_jobs \ before.start_application_jobs
              \subseteq before.restart_application_jobs \ restart_application_jobs
        /\ start_process_jobs \ before.start_process_jobs
              \subseteq before.restart_process_jobs \ restart_process_jobs
        /\ \A c \in StarterCalls :
              /\ c.method = "default_start_application" =>
                    /\ application_stopped(c.arg, stopped_processes)
                    /\ c.arg \notin start_application_jobs
                    /\ \/ c.arg \in before.start_application_jobs
                       \/ \E s \in StopperCalls :
                             s.method = "stop_application" /\ s.arg = c.arg /\ s.step < c.step
              /\ c.method = "default_start_process" =>
                    /\ c.arg \in stopped_processes
                    /\ c.arg \notin start_process_jobs
                    /\ \/ c.arg \in before.start_process_jobs
                       \/ \E s \in StopperCalls :
                             s.method = "stop_process" /\ s.arg = c.arg /\ s.step < c.step

\* reached: a process deferred by an earlier trigger_jobs is started once stopped
C7_Witness ==
    /\ IsTriggerJobs
    /\ \E p \in before.start_process_jobs \ before.restart_process_jobs :
          /\ Call("starter", "default_start_process", p, 5) \in calls
          /\ p \notin start_process_jobs

\* ---- helpers of the statements on the starting strategies
GetNodeCalled == starting_strategy \in StartingStrategies

\* the node accepts the load: known to the context, RUNNING, load below 100
\* once the expected load is added
Accepts(n) ==
    /\ n \in DOMAIN nodes
    /\ nodes[n].state = "RUNNING"
    /\ nodes[n].load + expected_load < 100

\* the allowed nodes that accept the load
Accepting == {n \in Range(node_names) : Accepts(n)}

\* scenario S1: A runs with load 40, B with load 60, both are allowed
ScenarioS1 ==
    /\ Range(node_names) = {"A", "B"}
    /\ {"A", "B"} \subseteq DOMAIN nodes
    /\ nodes["A"] = [state |-> "RUNNING", load |-> 40]
    /\ nodes["B"] = [state |-> "RUNNING", load |-> 60]

\* ---- C8
\* C8: the node returned by get_node, whatever the strategy, is an allowed node
\* that is known, RUNNING and whose load plus the expected load is strictly
\* below 100; in scenario S1 with expected load 61 nothing is returned.
C8_ReturnedNodeAcceptsLoad ==
    GetNodeCalled =>
        /\ node # None => (node \in Range(node_names) /\ Accepts(node))
        /\ (ScenarioS1 /\ expected_load = 61) => node = None

\* reached: a node is returned while another allowed RUNNING node is refused
\* because the load would make exactly 100
C8_Witness ==
    /\ GetNodeCalled
    /\ node # None
    /\ \E n \in Range(node_names) :
          /\ n \in DOMAIN nodes
          /\ nodes[n].state = "RUNNING"
          /\ nodes[n].load + expected_load = 100

\* ---- C9
\* C9: CONFIG returns the first node of the allowed list that accepts the load,
\* and nothing exactly when no allowed node accepts it.
C9_ConfigFirstAccepting ==
    starting_strategy = "CONFIG" =>
        IF Accepting = {}
        THEN node = None
        ELSE \E i \in 1 .. Len(node_names) :
                /\ node = node_names[i]
                /\ Accepts(node_names[i])
                /\ \A j \in 1 .. i - 1 : ~Accepts(node_names[j])

\* reached: CONFIG returns a node although a later allowed node accepts the
\* load with a lower load, and an earlier allowed node does not accept it
C9_Witness ==
    /\ starting_strategy = "CONFIG"
    /\ Len(node_names) = 3
    /\ ~Accepts(node_names[1])
    /\ node = node_names[2]
    /\ Accepts(node_names[3])
    /\ nodes[node_names[3]].load < nodes[node_names[2]].load

\* ---- C10
\* C10: LESS_LOADED returns an allowed node that accepts the load and whose
\* load is the lowest of the allowed nodes that accept it, and nothing exactly
\* when no allowed node accepts it; in scenario S1 with expected load 50 it
\* returns A.
C10_LessLoadedMinimum ==
    starting_strategy = "LESS_LOADED" =>
        /\ (node = None) <=> (Accepting = {})
        /\ node # None =>
              /\ node \in Accepting
              /\ \A n \in Accepting : nodes[node].load <= nodes[n].load
        /\ (ScenarioS1 /\ expected_load = 50) => node = "A"

\* reached: the node of lowest load is returned though it comes last in the
\* list, after an accepting node of higher load and a refused one
C10_Witness ==
    /\ starting_strategy = "LESS_LOADED"
    /\ Len(node_names) = 3
    /\ Accepts(node_names[1])
    /\ node = node_names[3]
    /\ nodes[node].load < nodes[node_names[1]].load

\* ---- C11
\* C11: MOST_LOADED returns an allowed node that accepts the load and whose
\* load is the highest of the allowed nodes that accept it, and nothing exactly
\* when no allowed node accepts it.
C11_MostLoadedMaximum ==
    starting_strategy = "MOST_LOADED" =>
        /\ (node = None) <=> (Accepting = {})
        /\ node # None =>
              /\ node \in Accepting
              /\ \A n \in Accepting : nodes[node].load >= nodes[n].load

\* reached: a node is returned while an allowed RUNNING node of higher load
\* does not accept the load
C11_Witness ==
    /\ starting_strategy = "MOST_LOADED"
    /\ node # None
    /\ \E n \in Range(node_names) \ Accepting :
          /\ n \in DOMAIN nodes
          /\ nodes[n].state = "RUNNING"
          /\ nodes[n].load > nodes[node].load

\* ---- C12
\* position of the first occurrence of n in the allowed list
FirstIndex(n) == CHOOSE i \in 1 .. Len(node_names) :
                    node_names[i] = n /\ \A j \in 1 .. i - 1 : node_names[j] # n

\* C12 as stated: LESS_LOADED and MOST_LOADED return, of the accepting allowed
\* nodes that have the load of the returned node, the one that comes first in
\* the allowed list.
C12_TiesFirstInConfigurationOrder ==
    (starting_strategy \in {"LESS_LOADED", "MOST_LOADED"} /\ node # None) =>
        \A n \in Accepting :
            nodes[n].load = nodes[node].load => FirstIndex(node) <= FirstIndex(n)

\* ---- C13
\* C13 as stated: LOCAL returns the local node when it is RUNNING with
\* load + expected load < 100 and nothing otherwise.
C13_LocalIffFits ==
    starting_strategy = "LOCAL" =>
        node = (IF Accepts(local_node_name) THEN local_node_name ELSE None)

\* C13 (amended): LOCAL returns the local node when it is one of the allowed
\* nodes given and is RUNNING with load + expected load < 100, and nothing
\* otherwise; it never returns another node.
C13_LocalIffAllowedAndFits ==
    starting_strategy = "LOCAL" =>
        /\ node \in {local_node_name, None}
        /\ (node = local_node_name) <=> (local_node_name \in Accepting)

\* reached: the local node is returned though it comes last in the allowed
\* list, after a node that accepts the load too
C13_Witness ==
    /\ starting_strategy = "LOCAL"
    /\ node = local_node_name
    /\ Len(node_names) >= 2
    /\ node_names[Len(node_names)] = local_node_name
    /\ node_names[1] # local_node_name
    /\ Accepts(node_names[1])

\* ---- conciliation: helpers
ConciliatedWith(chosen) == conciliated /\ conciliation_strategy = chosen

\* the running nodes of process p that received no stop request
Kept(p) == {n \in running_nodes[p] : <<n, p>> \notin stop_requests}

\* the processes that received a stop request
StoppedByRequest == {r[2] : r \in stop_requests}

\* ---- C14
\* C14 as stated: SENICIDE keeps, for each conflicting process, the running
\* node with the larger uptime and stops the others (X uptime 10, Y uptime 30:
\* the stop goes to X only).
C14_SenicideKeepsLargerUptime ==
    ConciliatedWith("SENICIDE") =>
        \A p \in Range(conflicts) :
            /\ Kept(p) # {}
            /\ \A n \in Kept(p), m \in running_nodes[p] : info_map[p][n] >= info_map[p][m]

\* C14 amended: SENICIDE keeps, for each conflicting process, one running node
\* of smallest uptime (the youngest instance) and sends a stop request to every
\* other running node of the process; for X (uptime 10) and Y (uptime 30) the
\* stop goes to Y only and X is kept.
C14_SenicideKeepsSmallerUptime ==
    ConciliatedWith("SENICIDE") =>
        \A p \in Range(conflicts) :
            /\ Kept(p) = {saved_nodes[p]}
            /\ \A m \in running_nodes[p] : info_map[p][saved_nodes[p]] <= info_map[p][m]
            /\ \A m \in running_nodes[p] \ {saved_nodes[p]} : <<m, p>> \in stop_requests

\* process 1 runs on A (uptime 10) and B (uptime 30): the stop went to B only
C14_Witness ==
    /\ ConciliatedWith("SENICIDE")
    /\ 1 \in Range(conflicts)
    /\ running_nodes[1] = {"A", "B"}
    /\ info_map[1]["A"] < info_map[1]["B"]
    /\ {r \in stop_requests : r[2] = 1} = {<<"B", 1>>}

stopper_stop_process(process, running) == {<<n, process>> : n \in running}

\* the stop requests made by the Stopper for the stop_process calls it received
StopperRequests ==
    UNION {stopper_stop_process(c.arg, running_nodes[c.arg]) :
              c \in {d \in StopperCalls : d.method = "stop_process"}}

\* C16: STOP conciliation hands every conflicting process to the Stopper, which
\* stops it on every node where it runs, no instance being kept; the six sets
\* of the failure handler are left as they were, and a process that is not in
\* the conflict list is neither handed to the Stopper nor sent a stop.
C16_StopEveryConflict ==
    ConciliatedWith("STOP") =>
        /\ \A p \in Range(conflicts) :
              /\ Call("stopper", "stop_process", p, 0) \in calls
              /\ \A n \in running_nodes[p] : <<n, p>> \in StopperRequests
        /\ Handler = before
        /\ StarterCalls = {}
        /\ \A p \in Procs \ Range(conflicts) :
              /\ \A c \in calls : c.arg # p
              /\ p \notin StoppedByRequest
              /\ \A n \in NodeNames : <<n, p>> \notin StopperRequests

\* one process conflicts and is stopped, the other one does not; the failure
\* handler holds a job
C16_Witness ==
    /\ ConciliatedWith("STOP")
    /\ Len(conflicts) = 1
    /\ running_nodes[conflicts[1]] = {"A", "B"}
    /\ StopperRequests = {<<"A", conflicts[1]>>, <<"B", conflicts[1]>>}
    /\ Handler # EmptyHandler

\* ---- C17
\* the process was handed to the Stopper by the restart loop of trigger_jobs
StoppedForRestart(p) == Call("stopper", "stop_process", p, 3) \in calls

\* C17 as stated: after RESTART conciliation each conflicting process has been
\* handed to the Stopper and sits in start_process_jobs, or is still recorded
\* in restart_process_jobs.
C17_RestartStoppedOrScheduled ==
    ConciliatedWith("RESTART") =>
        \A p \in Range(conflicts) :
            \/ StoppedForRestart(p) /\ p \in start_process_jobs
            \/ p \in restart_process_jobs

\* a STOP_APPLICATION or RESTART_APPLICATION job was recorded for the
\* application of p when conciliation began
Overridden(p) ==
    application_name(p) \in before.stop_application_jobs \cup before.restart_application_jobs

\* C17 amended: after RESTART conciliation each conflicting process whose
\* application had no STOP_APPLICATION or RESTART_APPLICATION job recorded has
\* been handed to the Stopper and sits in start_process_jobs (its application
\* is not in progress in Starter or Stopper), or is still recorded in
\* restart_process_jobs (its application is in progress); a conflicting
\* process whose application had such a job is not scheduled for a restart.
C17_RestartUnlessOverridden ==
    ConciliatedWith("RESTART") =>
        \A p \in Range(conflicts) :
            IF Overridden(p)
            THEN /\ p \notin restart_process_jobs \cup start_process_jobs
                 /\ ~StoppedForRestart(p)
            ELSE IF application_name(p) \in job_applications
            THEN /\ p \in restart_process_jobs \ start_process_jobs
                 /\ ~StoppedForRestart(p)
            ELSE /\ p \in start_process_jobs \ restart_process_jobs
                 /\ StoppedForRestart(p)

\* two conflicting processes were handed to the Stopper and wait to be started
C17_Witness ==
    /\ ConciliatedWith("RESTART")
    /\ Len(conflicts) = 2
    /\ \A p \in Range(conflicts) :
          /\ ~Overridden(p)
          /\ StoppedForRestart(p)
          /\ p \in start_process_jobs

\* ---- C18
\* the calls made by the failure handler itself (the loops of trigger_jobs)
TriggeredCalls == {c \in calls : c.step # 0}

\* C18: RUNNING_FAILURE conciliation hands every conflicting process to the
\* Stopper and adds it to the failure handler with its own
\* running_failure_strategy, in the order of the list and under the priority
\* rule of add_job; trigger_jobs runs once, on the handler that holds all the
\* additions. So a conflict ruled STOP_APPLICATION wins over the
\* RESTART_PROCESS of another conflict of its application, whatever the order:
\* no process of that application is stopped for a restart.
C18_FailureAddsAllThenTriggers ==
    ConciliatedWith("RUNNING_FAILURE") =>
        LET added == failure_add_jobs(before, conflicts, rules)
            t == trigger_jobs(added, job_applications, stopped_processes)
        IN  /\ \A p \in Range(conflicts) : Call("stopper", "stop_process", p, 0) \in calls
            /\ \A c \in calls \ TriggeredCalls : c.arg \in Range(conflicts)
            /\ Handler = [n \in DOMAIN Handler |-> t[n]]
            /\ TriggeredCalls = t.calls
            /\ \A p \in Range(conflicts) :
                  rules[p] = "STOP_APPLICATION" =>
                      \A q \in ProcsOf(application_name(p), Procs) :
                          /\ ~StoppedForRestart(q)
                          /\ q \in start_process_jobs => q \in before.start_process_jobs
                          /\ q \notin restart_process_jobs

\* the first conflict is ruled RESTART_PROCESS, the second one STOP_APPLICATION,
\* both of one application that is not in progress: the application is stopped
C18_Witness ==
    /\ ConciliatedWith("RUNNING_FAILURE")
    /\ Len(conflicts) = 2
    /\ rules[conflicts[1]] = "RESTART_PROCESS"
    /\ rules[conflicts[2]] = "STOP_APPLICATION"
    /\ application_name(conflicts[1]) = application_name(conflicts[2])
    /\ before = EmptyHandler
    /\ Call("stopper", "stop_application", application_name(conflicts[2]), 1) \in calls
    /\ Call("stopper", "stop_process", conflicts[1], 0) \in calls

\* ---- C19
\* the FSM states in which a command is permitted
PermittedStates(method) ==
    IF method \in {"stop_application", "stop_process"}
    THEN {"OPERATION", "CONCILIATION"}
    ELSE {"OPERATION"}

CommandReceived == rpc.method # "none"

\* C19: a command received outside its permitted FSM states (OPERATION for
\* start_application, restart_application, start_process and restart_process;
\* OPERATION or CONCILIATION for stop_application and stop_process) raises
\* BAD_SUPVISORS_STATE, asks nothing of Starter, Stopper or the requester and
\* leaves no deferred job; in a permitted state that fault is never raised.
C19_RejectedOutsidePermittedStates ==
    CommandReceived =>
        /\ rpc_result = "BAD_SUPVISORS_STATE" <=> fsm_state \notin PermittedStates(rpc.method)
        /\ fsm_state \notin PermittedStates(rpc.method) =>
              /\ rpc_calls = {}
              /\ requester_calls = {}
              /\ job = NoJob
              /\ poll_result = "none"

\* stop_process of a running process is rejected in DEPLOYMENT, and
\* start_application with valid arguments is rejected in CONCILIATION
C19_Witness ==
    \/ /\ rpc.method = "stop_process"
       /\ fsm_state = "DEPLOYMENT"
       /\ \E p \in DOMAIN process_states : process_running(process_states[p])
       /\ rpc_result = "BAD_SUPVISORS_STATE"
    \/ /\ rpc.method = "start_application"
       /\ fsm_state = "CONCILIATION"
       /\ rpc.strategy \in StartingStrategies
       /\ rpc.application_name \in Apps
       /\ application_state = "STOPPED"
       /\ rpc_result = "BAD_SUPVISORS_STATE"

\* ---- C20
\* C20: the deferred job of start_application exists only for wait = true and
\* a Starter that has work to do; each poll made while the Starter is in
\* progress answers NOT_DONE_YET and the job goes on; a poll made when the
\* Starter is no longer in progress ends the job with True if the application
\* is RUNNING and with the fault ABNORMAL_TERMINATION otherwise.
C20_StartApplicationJob ==
    rpc.method = "start_application" =>
        /\ rpc_result = "DEFERRED" <=> (job # NoJob \/ poll_result # "none")
        /\ rpc_result = "DEFERRED" =>
              /\ rpc.wait /\ ~rpc.done
              /\ fsm_state = "OPERATION"
        /\ poll_result # "none" =>
              IF in_progress
              THEN /\ poll_result = "NOT_DONE_YET"
                   /\ job.kind = "start_application"
                   /\ job.application_name = rpc.application_name
              ELSE /\ poll_result = IF application_state = "RUNNING"
                                    THEN "True" ELSE "ABNORMAL_TERMINATION"
                   /\ job = NoJob

\* the job was polled when the Starter had finished and the application was
\* not RUNNING
C20_Witness ==
    /\ rpc.method = "start_application"
    /\ rpc_result = "DEFERRED"
    /\ ~in_progress
    /\ application_state = "STARTING"
    /\ poll_result = "ABNORMAL_TERMINATION"

\* ---- C21
\* the places of an address in the requests of the last restart() / shutdown()
RequestsTo(a) == {i \in DOMAIN func_requests : func_requests[i] = a}

RemoteStatuses == {addresses[i] : i \in {j \in DOMAIN addresses : addresses[j].address # local_node_name}}

\* C21: after restart() or shutdown(), whatever the remote requests answered
\* (RPCError included), every RUNNING remote address has been requested once
\* and before the local address, no remote address that is not RUNNING has
\* been requested, and the local address has been requested exactly once, as
\* the last request.
C21_RemoteFirstLocalLast ==
    func # "none" =>
        /\ func_requests # <<>>
        /\ RequestsTo(local_node_name) = {Len(func_requests)}
        /\ \A status \in RemoteStatuses :
              IF status.state = "RUNNING"
              THEN /\ Cardinality(RequestsTo(status.address)) = 1
                   /\ \A i \in RequestsTo(status.address) : i < Len(func_requests)
              ELSE RequestsTo(status.address) = {}

\* a restart where the first RUNNING remote address raised RPCError, a second
\* RUNNING one was requested after it, a third one was not RUNNING, and the
\* local address came last
C21_Witness ==
    /\ func = "restart"
    /\ Len(func_requests) = 3
    /\ func_outcomes[func_requests[1]] = "RPCError"
    /\ func_requests[3] = local_node_name
    /\ \E status \in RemoteStatuses : status.state = "SILENT"

\* ---- C22
LastAuthorization == comm_events[Len(comm_events)]

\* the check of a peer, the only request given to the pool so far, went
\* through: its authorization event has reached the local supervisor
CheckCompleted ==
    /\ submitted = 1
    /\ comm_events # <<>>
    /\ LastAuthorization.type = "SUPVISORS_AUTH"
    /\ worker = NoTask
    /\ address_info # <<>>

\* C22: when the check of peer R has completed, the authorization sent to the
\* local supervisor is granted if and only if the state that R reported for
\* the local node is a known state other than ISOLATING and ISOLATED, and the
\* process list of R is put in the queue only when authorization is granted.
C22_AuthorizedIffLocalNotIsolated ==
    CheckCompleted =>
        /\ LastAuthorization.authorized = "True"
              <=> address_info[local_node_name] \in AddressStates \ {"ISOLATING", "ISOLATED"}
        /\ LastAuthorization.authorized # "True"
              => LastAuthorization.address_name \notin Range(queue_items)

\* ---- C23
\* the worker executes the next queued request
NextRequest ==
    \/ AsyncCheckAddress
    \/ \E name \in {"async_start_process", "async_stop_process", "async_restart",
                     "async_shutdown"} : AsyncRequest(name)

\* C23: whatever a call made by a request function raised (a socket error, a
\* fault), the function returned normally, nothing was raised out of it, and
\* the worker is free to execute the next queued request.
C23_TransportErrorsAbsorbed ==
    /\ returned # "raises"
    /\ (failed # {} /\ worker = NoTask /\ task_queue # <<>>) => ENABLED NextRequest

\* a call of peer B raised, its request function returned, and the next
\* request waits in the queue of the idle worker
C23_Witness ==
    /\ failed = {"B"}
    /\ returned = "returns"
    /\ worker = NoTask
    /\ task_queue # <<>>
    /\ pool_state = "RUN"

\* ---- C24
\* C24: once a request whose call of peer R raised has ended, the state of R
\* in the local context is SILENT.
C24_FailedPeerSilent ==
    \A address_name \in failed : worker = NoTask => node_state[address_name] = "SILENT"

StatesOfProcesses ==
    {application_processes[process].state : process \in DOMAIN application_processes}

\* the priority function of the states of the processes
PriorityState ==
    IF "STOPPING" \in StatesOfProcesses THEN "STOPPING"
    ELSE IF StatesOfProcesses \cap {"STARTING", "BACKOFF"} # {} THEN "STARTING"
    ELSE IF "RUNNING" \in StatesOfProcesses THEN "RUNNING"
    ELSE "STOPPED"

\* C26 as stated: after update_status the state of the application is the
\* priority function of the states of its processes, for every application.
C26_StateIsPriorityFunction == status_updated => app_state = PriorityState

\* C26 amended: after update_status the state of a managed application whose
\* sequences are up to date is the priority function of the states of its
\* processes, and the state of an unmanaged application whose sequences are
\* up to date is STOPPED whatever its processes.
C26_StateOfManagedApplication ==
    (status_updated /\ sequences_updated) =>
        app_state = IF managed THEN PriorityState ELSE "STOPPED"

\* a managed application with a STOPPING and a STARTING process is STOPPING
C26_Witness ==
    /\ status_updated
    /\ sequences_updated
    /\ managed
    /\ StatesOfProcesses = {"STOPPING", "STARTING"}
    /\ app_state = "STOPPING"

\* ---- C27
\* ProcessStatus.stopped()
RequiredStopped ==
    \E process \in DOMAIN application_processes :
        /\ application_processes[process].required
        /\ application_processes[process].state \in {"STOPPED", "EXITED", "FATAL"}

\* a process that is not required crashed, or exited unexpectedly
OptionalCrashed ==
    \E process \in DOMAIN application_processes :
        /\ ~application_processes[process].required
        /\ \/ application_processes[process].state = "FATAL"
           \/ /\ application_processes[process].state = "EXITED"
              /\ ~application_processes[process].expected_exit

\* C27 as stated: after update_status, major_failure holds exactly when a
\* required process is stopped while the application is running, and
\* minor_failure exactly when a process that is not required is FATAL or
\* EXITED unexpectedly.
C27_MajorWhileRunning ==
    status_updated =>
        /\ major_failure <=> (RequiredStopped /\ app_state \in {"STARTING", "RUNNING"})
        /\ minor_failure <=> OptionalCrashed

\* C27 amended: after update_status of an application whose sequences are up
\* to date, major_failure holds exactly when the application is managed and a
\* required process is stopped, whether the application is running or not,
\* and minor_failure exactly when the application is managed and a process
\* that is not required is FATAL or EXITED unexpectedly.
C27_MajorOfManagedApplication ==
    (status_updated /\ sequences_updated) =>
        /\ major_failure <=> (managed /\ RequiredStopped)
        /\ minor_failure <=> (managed /\ OptionalCrashed)

\* a managed application whose processes are all STOPPED, one of them
\* required: the application is STOPPED and has a major failure
C27_Witness ==
    /\ status_updated
    /\ sequences_updated
    /\ managed
    /\ StatesOfProcesses = {"STOPPED"}
    /\ RequiredStopped
    /\ app_state = "STOPPED"
    /\ major_failure
    /\ ~minor_failure

\* ---- C28
\* the processes whose rule (start_sequence or stop_sequence) has the value
WithStartSequence(value) ==
    {process \in DOMAIN application_processes :
        application_processes[process].start_sequence = value}

WithStopSequence(value) ==
    {process \in DOMAIN application_processes :
        application_processes[process].stop_sequence = value}

\* C28: after update_sequences of a managed application, the keys of
\* start_sequence (of stop_sequence) are exactly the start_sequence (the
\* stop_sequence) values of its processes, each key maps to exactly the
\* processes that have this value, each of them once; after update_sequences
\* of an unmanaged application both maps are empty.
C28_SequencesArePartitions ==
    sequences_updated =>
        IF managed
        THEN /\ DOMAIN start_sequence =
                   {application_processes[process].start_sequence :
                       process \in DOMAIN application_processes}
             /\ \A value \in DOMAIN start_sequence :
                   /\ Range(start_sequence[value]) = WithStartSequence(value)
                   /\ Len(start_sequence[value]) = Cardinality(WithStartSequence(value))
             /\ DOMAIN stop_sequence =
                   {application_processes[process].stop_sequence :
                       process \in DOMAIN application_processes}
             /\ \A value \in DOMAIN stop_sequence :
                   /\ Range(stop_sequence[value]) = WithStopSequence(value)
                   /\ Len(stop_sequence[value]) = Cardinality(WithStopSequence(value))
        ELSE /\ DOMAIN start_sequence = {}
             /\ DOMAIN stop_sequence = {}

\* a managed application whose two processes start together and stop apart
C28_Witness ==
    /\ sequences_updated
    /\ managed
    /\ DOMAIN start_sequence = {1}
    /\ Len(start_sequence[1]) = 2
    /\ DOMAIN stop_sequence = {0, 1}

\* ---- C29
\* the processes whose start was requested so far
Requested == UNION Range(start_requests)

StartSequenceOf(process) == starter_processes[process].start_sequence

\* C29: no start request of a later sub-sequence is issued while a job of an
\* earlier sub-sequence is in flight (q2 of start_sequence 1 is requested only
\* once the job of q1 of start_sequence 0 has terminated), the requests of one
\* step all have the same start_sequence value, and the steps follow the
\* increasing order of the values.
C29_SubSequencesSerialized ==
    /\ \A process \in current_jobs : \A other \in Requested :
          StartSequenceOf(other) <= StartSequenceOf(process)
    /\ \A i \in DOMAIN start_requests : \A process, other \in start_requests[i] :
          StartSequenceOf(process) = StartSequenceOf(other)
    /\ \A i, j \in DOMAIN start_requests : \A process \in start_requests[i] :
          \A other \in start_requests[j] :
              i < j => StartSequenceOf(process) < StartSequenceOf(other)

\* q1 and q3 (start_sequence 0) were requested together, q1 runs and q3
\* crashed under CONTINUE, and q2 (start_sequence 1) was requested after them
C29_Witness ==
    /\ start_requests = <<{"q1", "q3"}, {"q2"}>>
    /\ starter_processes["q1"].state = "RUNNING"
    /\ starter_processes["q3"].state = "FATAL"
    /\ current_jobs = {"q2"}

\* ---- C30
\* the place of an identifier in the lexicographic order
Rank(a) == CHOOSE i \in DOMAIN SortedNames : SortedNames[i] = a

\* C30: in DEPLOYMENT, OPERATION and CONCILIATION the master is one of the
\* nodes that were RUNNING when DEPLOYMENT was entered, none of them has a
\* smaller identifier, and the master is RUNNING: once it is SILENT the FSM
\* is back in INITIALIZATION.
C30_MasterPinned ==
    supvisors_state \in {"DEPLOYMENT", "OPERATION", "CONCILIATION"} =>
        /\ get_master_address \in running_at_entry
        /\ \A a \in running_at_entry : Rank(get_master_address) <= Rank(a)
        /\ address_states[get_master_address] = "RUNNING"

\* the nodes were RUNNING in the order C, A, B and the master of DEPLOYMENT is A
C30_Witness ==
    /\ running_order = <<"C", "A", "B">>
    /\ supvisors_state = "DEPLOYMENT"
    /\ get_master_address = "A"

\* ---- C31
\* the event that a step of the worker has just sent to the local supervisor
SentEvent == comm_events'[Len(comm_events')]

StopCompleted ==
    IF job.kind = "restart_application"
    THEN job.inner = "bool" \/ (~in_progress' /\ application_state' = "STOPPED")
    ELSE \A p \in job.targets : process_stopped(process_states'[p])

\* the stop job of the restart answers NOT_DONE_YET at this poll
StopPending ==
    IF job.kind = "restart_application"
    THEN job.inner # "bool" /\ in_progress'
    ELSE ~StopCompleted

\* the start command of the restart passes its contract checks at this poll
StartAccepted ==
    /\ job.strategy \in StartingStrategies
    /\ job.kind = "restart_application" => application_state' # "RUNNING"

\* the Starter calls of the start command of the restart
StartCalls ==
    IF job.kind = "restart_application"
    THEN {Call("starter", "start_application", job.application_name, 0)}
    ELSE {Call("starter", "start_process", p, 0) : p \in job.targets}

\* C32: in the deferred job of restart_application and of restart_process,
\* a poll of the stop phase at which the stop job is not done answers
\* NOT_DONE_YET, keeps the job and asks the Starter nothing; the poll at
\* which the stop job answers True (or the stop had nothing to do) makes the
\* start command, once: the Starter is asked then and the job leaves the stop
\* phase for good, ending with the start's boolean or fault, or going on with
\* the start job; from then on a poll asks the Starter nothing and answers
\* what the start job answers, which is the final result of the restart.
C32_StartOnceAfterStop ==
    [][job.kind \in {"restart_application", "restart_process"} =>
          /\ (job.waitstop /\ StopPending) =>
                /\ poll_result' = "NOT_DONE_YET"
                /\ job' = job
          /\ (job.waitstop /\ ~StopCompleted) => rpc_calls' = {}
          /\ (job.waitstop /\ StopCompleted) =>
                IF StartAccepted
                THEN /\ rpc_calls' = StartCalls
                     /\ \/ /\ job' = [job EXCEPT !.waitstop = FALSE,
                                                 !.inner = IF job.kind = "restart_application"
                                                           THEN "start_application"
                                                           ELSE "start_process"]
                           /\ poll_result' = "NOT_DONE_YET"
                           /\ job.wait
                        \/ /\ job' = NoJob
                           /\ poll_result' \in {"True", "False"}
                ELSE /\ rpc_calls' = {}
                     /\ job' = NoJob
                     /\ poll_result' \in Faults
          /\ ~job.waitstop =>
                /\ rpc_calls' = {}
                /\ poll_result' =
                      IF job.kind = "restart_application"
                      THEN onwait_start_application(in_progress', application_state')
                      ELSE onwait_start_process(in_progress', process_states', job.targets)
                /\ job' = IF poll_result' = "NOT_DONE_YET" THEN job ELSE NoJob]_vars

\* the restart of application 1 was polled while the Stopper was in progress,
\* then with the application STOPPED: the Starter was asked to start it and
\* the job waits for the start
C32_Witness ==
    /\ rpc.method = "restart_application"
    /\ job.kind = "restart_application"
    /\ ~job.waitstop
    /\ job.inner = "start_application"
    /\ application_state = "STOPPED"
    /\ rpc_calls = {Call("starter", "start_application", 1, 0)}
    /\ poll_result = "NOT_DONE_YET"

\* ---- C33
\* C33: a start_application received in OPERATION makes its checks in order
\* before it acts: an invalid strategy gives BAD_STRATEGY; with a valid
\* strategy an unknown application gives BAD_NAME; with both valid an
\* application that is RUNNING gives ALREADY_STARTED, and nothing else gives
\* these faults. In each of these cases the Starter is not asked anything, no
\* stop request is sent and no deferred job exists. When the command is
\* accepted and the Starter reports that it has nothing to do, the command
\* returns False without a deferred job.
C33_ContractErrorsBeforeActing ==
    (rpc.method = "start_application" /\ fsm_state = "OPERATION") =>
        LET valid_strategy == rpc.strategy \in StartingStrategies
            known == rpc.application_name \in Apps
        IN  /\ rpc_result = "BAD_STRATEGY" <=> ~valid_strategy
            /\ rpc_result = "BAD_NAME" <=> (valid_strategy /\ ~known)
            /\ poll_result = "none" =>
                  (rpc_result = "ALREADY_STARTED"
                      <=> (valid_strategy /\ known /\ application_state = "RUNNING"))
            /\ rpc_result \in Faults =>
                  /\ rpc_calls = {}
                  /\ requester_calls = {}
                  /\ job = NoJob
                  /\ poll_result = "none"
            /\ (rpc_result \notin Faults /\ rpc.done) =>
                  /\ rpc_result = "False"
                  /\ job = NoJob
                  /\ poll_result = "none"
            /\ rpc_result \notin Faults =>
                  rpc_calls = {Call("starter", "start_application", rpc.application_name, 0)}
                  \/ poll_result # "none"

\* application 1, which is RUNNING, is asked to start with a valid strategy
C33_Witness ==
    /\ rpc.method = "start_application"
    /\ fsm_state = "OPERATION"
    /\ rpc.strategy \in StartingStrategies
    /\ rpc.application_name = 1
    /\ application_state = "RUNNING"
    /\ rpc_result = "ALREADY_STARTED"
    /\ rpc_calls = {}

\* ---- C34
\* the processes that the namespec of the command designates
Targeted == processes_of(rpc.namespec)

\* C34: a start_process that passed the checks of the state, of the strategy
\* and of the namespec is all-or-nothing: if any targeted process is running
\* it raises ALREADY_STARTED and the Starter has been asked to start none of
\* the targeted processes; only when none is running is the Starter asked,
\* once for each targeted process.
C34_StartProcessAllOrNothing ==
    (/\ rpc.method = "start_process"
     /\ fsm_state = "OPERATION"
     /\ rpc.strategy \in StartingStrategies
     /\ known_namespec(rpc.namespec)
     /\ poll_result = "none") =>
        IF \E p \in Targeted : process_running(process_states[p])
        THEN /\ rpc_result = "ALREADY_STARTED"
             /\ rpc_calls = {}
             /\ job = NoJob
        ELSE /\ rpc_result \notin Faults
             /\ rpc_calls = {Call("starter", "start_process", p, 0) : p \in Targeted}

\* group:* of application 1 is asked to start while its process 1 is stopped
\* and its process 2 is running
C34_Witness ==
    /\ rpc.method = "start_process"
    /\ fsm_state = "OPERATION"
    /\ rpc.strategy \in StartingStrategies
    /\ rpc.namespec = [group |-> 1, name |-> NoProcess]
    /\ DOMAIN process_states = {1, 2}
    /\ process_stopped(process_states[1])
    /\ process_running(process_states[2])
    /\ rpc_result = "ALREADY_STARTED"
    /\ rpc_calls = {}

\* ---- C35
\* C35: a stop_process that passed the checks of the state and of the
\* namespec sends one stop request to every identifier on which each
\* targeted running process runs, and none for a targeted process that is
\* not running. With wait = true it returns a deferred job: a poll answers
\* NOT_DONE_YET and keeps the job as long as a targeted process is not
\* stopped, answers True and ends the job as soon as all are stopped, sends
\* no request and never raises. With wait = false it returns True.
C35_StopWhereRunning ==
    (/\ rpc.method = "stop_process"
     /\ fsm_state \in {"OPERATION", "CONCILIATION"}
     /\ known_namespec(rpc.namespec)) =>
        /\ rpc_result = IF rpc.wait THEN "DEFERRED" ELSE "True"
        /\ rpc_calls = {}
        /\ poll_result = "none" =>
              /\ requester_calls =
                    UNION {{<<a, p>> : a \in process_states[p].addresses} :
                              p \in {q \in Targeted : process_running(process_states[q])}}
              /\ job # NoJob <=> rpc.wait
        /\ poll_result # "none" =>
              /\ rpc.wait
              /\ requester_calls = {}
              /\ IF \E p \in Targeted : ~process_stopped(process_states[p])
                 THEN poll_result = "NOT_DONE_YET" /\ job.kind = "stop_process"
                 ELSE poll_result = "True" /\ job = NoJob

\* group:* of application 1 is asked to stop while its process 1 runs on A
\* and B and its process 2 is stopping
C35_Witness ==
    /\ rpc.method = "stop_process"
    /\ fsm_state = "OPERATION"
    /\ rpc.namespec = [group |-> 1, name |-> NoProcess]
    /\ poll_result = "none"
    /\ DOMAIN process_states = {1, 2}
    /\ process_states[1] = [state |-> "RUNNING", addresses |-> {"A", "B"}]
    /\ process_states[2].state = "STOPPING"
    /\ requester_calls = {<<"A", 1>>, <<"B", 1>>}

\* ---- C36
\* the entries of the five other sets before the call that a call may come from
CallSources(c) ==
    IF c.method = "stop_application"
    THEN before.stop_application_jobs \cup before.restart_application_jobs
    ELSE IF c.method = "stop_process"
    THEN before.restart_process_jobs
    ELSE IF c.method = "default_start_application"
    THEN before.start_application_jobs \cup before.restart_application_jobs
    ELSE before.start_process_jobs \cup before.restart_process_jobs

\* C36: CONTINUE jobs are logging only. After every trigger_jobs call
\* continue_process_jobs is empty, whether or not the applications of its
\* entries are owned by Starter or Stopper, and every Stopper or Starter call
\* of trigger_jobs comes from an entry of one of the five other sets: an
\* application that only has entries in continue_process_jobs gets no call.
C36_ContinueIsLoggingOnly ==
    IsTriggerJobs =>
        /\ continue_process_jobs = {}
        /\ \A c \in calls : c.arg \in CallSources(c)
        /\ \A p \in before.continue_process_jobs :
              SetsConcerning(before, application_name(p)) = {"continue_process_jobs"}
                  => \A c \in calls : CallApp(c) # application_name(p)

\* trigger_jobs was called with process 1 in continue_process_jobs while its
\* application was owned by Starter or Stopper
C36_Witness ==
    /\ IsTriggerJobs
    /\ before.continue_process_jobs = {1}
    /\ application_name(1) \in job_applications
    /\ continue_process_jobs = {}
    /\ calls = {}

\* ---- C37
\* the Stopper call has work to do: what it was asked to stop is not stopped
StillInProgress(c) ==
    IF c.method = "stop_application"
    THEN ~application_stopped(c.arg, stopped_processes)
    ELSE c.arg \notin stopped_processes

\* C37: within one trigger_jobs call the Starter is invoked at most once per
\* application (never default_start_application(A) together with
\* default_start_process(p) for a process p of A), and never for an
\* application for which the same call issued a Stopper call that is still
\* in progress.
C37_OneCommanderPerCall ==
    IsTriggerJobs =>
        /\ \A c, d \in StarterCalls : CallApp(c) = CallApp(d) => c = d
        /\ \A s \in StopperCalls, c \in StarterCalls :
              CallApp(s) = CallApp(c) => ~StillInProgress(s)

\* ---- C38
\* the four sets that add_job writes
JobSets(h) ==
    <<h.stop_application_jobs, h.restart_application_jobs, h.restart_process_jobs,
      h.continue_process_jobs>>

\* C38: additions made with add_job commute. Whenever an add_job has been
\* made, and whatever second addition (strategy, process) follows it without
\* a trigger_jobs in between, making the two additions in the other order
\* from the same handler gives the same stop_application_jobs,
\* restart_application_jobs, restart_process_jobs and continue_process_jobs.
\* Any order of a finite set of additions is reached from any other by
\* exchanging neighbours, so every order gives the same four sets.
C38_AddJobOrderIndependent ==
    last_call.op = "add_job" =>
        \A strategy \in RunningFailureStrategies, process \in Procs :
            JobSets(add_job(Handler, strategy, process))
                = JobSets(add_job(add_job(before, strategy, process),
                                  last_call.strategy, last_call.process))

\* RESTART_PROCESS was added for process 1, which had a CONTINUE entry, and
\* process 2 of the same application has a CONTINUE entry: the additions
\* interfere and still commute
C38_Witness ==
    /\ IsAddJob("RESTART_PROCESS")
    /\ last_call.process = 1
    /\ before.continue_process_jobs = {1, 2}
    /\ restart_process_jobs = {1}
    /\ continue_process_jobs = {2}

\* ---- C40
\* the uptimes of the running nodes of process p are pairwise distinct
DistinctUptimes(p) ==
    \A n, m \in running_nodes[p] : info_map[p][n] = info_map[p][m] => n = m

\* the nodes the other uptime strategy keeps for process p
OtherSavedNodes(p) ==
    IF conciliation_strategy = "SENICIDE"
    THEN infanticide_saved_nodes(running_nodes[p], info_map[p])
    ELSE senicide_saved_nodes(running_nodes[p], info_map[p])

C39_NoJobKeptForever ==
    /\ \A app \in Apps :
          /\ []<>(app \notin stop_application_jobs)
          /\ []<>(app \notin restart_application_jobs)
          /\ []<>(app \notin start_application_jobs)
    /\ \A p \in Procs :
          /\ []<>(p \notin restart_process_jobs)
          /\ []<>(p \notin continue_process_jobs)
          /\ []<>(p \notin start_process_jobs)

====
